---- MODULE Spec2Model ----
(***************************************************************************)
(* Model of the SimpleArchiver archive engine (package archiver):          *)
(* exclusion matching, file collection, the Compress pipeline, the Extract *)
(* pipeline with its path check, statistics snapshots and cooperative      *)
(* cancellation; and of the terminal interface that runs an operation      *)
(* (main.go): worker command, progress channel, listener, model.Update.    *)
(*                                                                         *)
(* Strings are sequences of one-character strings, so that the engine's    *)
(* string operations (prefix, suffix, substring, glob) and the path        *)
(* functions of path/filepath are computed character by character.         *)
(***************************************************************************)
EXTENDS Integers, Sequences, FiniteSets, TLC

VARIABLES
    disk,     \* the file system: real path -> node
    arcs,     \* the archive held by each archive file: real path -> archive
    opts,     \* the options of the running call
    pc,       \* where the call is: "start", "loop", "entry", "done"
    files,    \* Compress: the collected file list; Extract: the entries of
              \* the opened archive
    idx,      \* entries completely processed so far (the loop index)
    stats,    \* the statistics the pipeline owns
    emitted,  \* the snapshots handed to OnStats, in order
    ctxDone,  \* the context has been cancelled
    result,   \* what the call returned
    touched,  \* Extract: the target paths it created or wrote (history)
    cancelAt, \* idx and pc when the context was cancelled (history)
    origin,   \* the source files of the Compress call whose archive is being
              \* extracted (history)
    before,   \* the file system and the archives when the call began (history)
    held,     \* the snapshot last handed to OnStats, as the callback left it
    chan,     \* the progress channel of the interface: [buf, closed]
    lsn,      \* the command listening on the progress channel: [at, msg]
    ui        \* the interface model: [on, state, stats, worker, quit]

vars == <<disk, arcs, opts, pc, files, idx, stats, emitted, ctxDone, result,
          touched, cancelAt, origin, before, held, chan, lsn, ui>>

----------------------------------------------------------------------------
(* Strings (package strings)                                               *)

Sep == "/"

\* strings.HasPrefix
HasPrefix(s, p) == Len(p) <= Len(s) /\ SubSeq(s, 1, Len(p)) = p

\* strings.HasSuffix
HasSuffix(s, p) == Len(p) <= Len(s) /\ SubSeq(s, Len(s) - Len(p) + 1, Len(s)) = p

\* strings.Contains
Contains(s, p) ==
    \E i \in 1..(Len(s) - Len(p) + 1) : SubSeq(s, i, i + Len(p) - 1) = p

\* strings.ToLower on the letters the model uses
LowerChar(c) ==
    CASE c = "Z" -> "z"
      [] c = "I" -> "i"
      [] c = "P" -> "p"
      [] c = "T" -> "t"
      [] c = "A" -> "a"
      [] c = "R" -> "r"
      [] c = "G" -> "g"
      [] c = "B" -> "b"
      [] c = "X" -> "x"
      [] c = "S" -> "s"
      [] c = "L" -> "l"
      [] OTHER -> c

ToLower(s) == [i \in 1..Len(s) |-> LowerChar(s[i])]

\* index of the last separator of s, 0 when there is none
LastSep(s) ==
    LET I == {i \in 1..Len(s) : s[i] = Sep}
    IN  IF I = {} THEN 0 ELSE CHOOSE i \in I : \A j \in I : j <= i

\* the elements of s between separators (empty elements included)
RECURSIVE SplitSep(_)
SplitSep(s) ==
    LET I == {i \in 1..Len(s) : s[i] = Sep}
    IN  IF I = {} THEN <<s>>
        ELSE LET k == CHOOSE i \in I : \A j \in I : i <= j
             IN  <<SubSeq(s, 1, k - 1)>> \o SplitSep(SubSeq(s, k + 1, Len(s)))

\* the elements joined by separators
RECURSIVE JoinSep(_)
JoinSep(segs) ==
    IF segs = <<>> THEN <<>>
    ELSE IF Len(segs) = 1 THEN segs[1]
    ELSE segs[1] \o <<Sep>> \o JoinSep(Tail(segs))

----------------------------------------------------------------------------
(* Paths (package path/filepath, Unix)                                     *)

Dot == <<".">>
DotDot == <<".", ".">>

IsRooted(p) == Len(p) > 0 /\ p[1] = Sep

\* the element stack of filepath.Clean: "" and "." are dropped, ".." pops an
\* element, is dropped at the root and is kept at the front of a relative path
CleanPush(acc, s, rooted) ==
    IF s = <<>> \/ s = Dot THEN acc
    ELSE IF s = DotDot
         THEN IF Len(acc) > 0 /\ acc[Len(acc)] # DotDot
              THEN SubSeq(acc, 1, Len(acc) - 1)
              ELSE IF rooted THEN acc ELSE Append(acc, DotDot)
         ELSE Append(acc, s)

RECURSIVE CleanSegs(_, _, _)
CleanSegs(segs, acc, rooted) ==
    IF segs = <<>> THEN acc
    ELSE CleanSegs(Tail(segs), CleanPush(acc, Head(segs), rooted), rooted)

\* the cleaned path of the element stack
CleanJoin(segs, rooted) ==
    IF rooted THEN <<Sep>> \o JoinSep(segs)
    ELSE IF segs = <<>> THEN Dot ELSE JoinSep(segs)

\* filepath.Clean
Clean(p) ==
    IF p = <<>> THEN Dot
    ELSE CleanJoin(CleanSegs(SplitSep(p), <<>>, IsRooted(p)), IsRooted(p))

\* filepath.Join of two elements: empty elements are ignored, the rest is
\* joined by a separator and cleaned
Join(a, b) ==
    IF a = <<>> /\ b = <<>> THEN <<>>
    ELSE Clean(IF a = <<>> THEN b ELSE IF b = <<>> THEN a ELSE a \o <<Sep>> \o b)

\* filepath.Dir: everything up to the last separator, cleaned
Dir(p) == Clean(SubSeq(p, 1, LastSep(p)))

\* p without its trailing separators
RECURSIVE StripTrailingSep(_)
StripTrailingSep(p) ==
    IF Len(p) > 0 /\ p[Len(p)] = Sep
    THEN StripTrailingSep(SubSeq(p, 1, Len(p) - 1))
    ELSE p

\* the last element of a path without trailing separators
LastElem(q) == IF q = <<>> THEN <<Sep>> ELSE SubSeq(q, LastSep(q) + 1, Len(q))

\* filepath.Base
Base(p) == IF p = <<>> THEN Dot ELSE LastElem(StripTrailingSep(p))

\* the non-empty elements of a cleaned path
Elems(p) == SelectSeq(SplitSep(p), LAMBDA s : s # <<>>)

\* length of the longest common prefix of two element sequences
FirstDiff(D, N) == IF D = {} THEN N ELSE (CHOOSE i \in D : \A j \in D : i <= j) - 1

CommonLen(a, b) ==
    FirstDiff({i \in 1..(IF Len(a) < Len(b) THEN Len(a) ELSE Len(b)) : a[i] # b[i]},
              IF Len(a) < Len(b) THEN Len(a) ELSE Len(b))

\* Rel on element sequences that share their first k elements: one ".." for
\* every further element of the base, then the rest of the target; an error
\* where the base goes on with ".."
RelFrom(bs, ts, k) ==
    IF k < Len(bs) /\ bs[k + 1] = DotDot THEN [ok |-> FALSE, path |-> <<>>]
    ELSE [ok |-> TRUE,
          path |-> JoinSep([i \in 1..(Len(bs) - k) |-> DotDot] \o SubSeq(ts, k + 1, Len(ts)))]

RelElems(bs, ts) == RelFrom(bs, ts, CommonLen(bs, ts))

\* Rel on cleaned paths
RelClean(base, targ) ==
    IF targ = base THEN [ok |-> TRUE, path |-> Dot]
    ELSE IF (base # Dot /\ IsRooted(base)) # IsRooted(targ)
         THEN [ok |-> FALSE, path |-> <<>>]
    ELSE RelElems(IF base = Dot THEN <<>> ELSE Elems(base), Elems(targ))

\* filepath.Rel: [ok, path]; ok is FALSE where Rel returns an error
Rel(basepath, targpath) == RelClean(Clean(basepath), Clean(targpath))

\* filepath.Match for patterns of literal characters, '*' and '?'
RECURSIVE Match(_, _)
Match(pattern, name) ==
    IF pattern = <<>> THEN name = <<>>
    ELSE IF Head(pattern) = "*"
         THEN \E k \in 0..Len(name) :
                 /\ \A j \in 1..k : name[j] # Sep
                 /\ Match(Tail(pattern), SubSeq(name, k + 1, Len(name)))
    ELSE IF name = <<>> THEN FALSE
    ELSE IF Head(pattern) = "?"
         THEN Head(name) # Sep /\ Match(Tail(pattern), Tail(name))
    ELSE Head(pattern) = Head(name) /\ Match(Tail(pattern), Tail(name))

----------------------------------------------------------------------------
(* Exclusion matcher                                                       *)

\* one pattern against a path and its base name: a wildcard pattern is
\* matched against the base name; any other pattern must equal the base name,
\* or occur in the path between two separators, or end the path after a
\* separator
matchesPattern(path, name, pattern) ==
    IF Contains(pattern, <<"*">>)
    THEN Match(pattern, name)
    ELSE \/ name = pattern
         \/ Contains(path, <<Sep>> \o pattern \o <<Sep>>)
         \/ HasSuffix(path, <<Sep>> \o pattern)

\* shouldExclude: the first pattern that matches excludes the path
shouldExclude(path, excludes) ==
    \E i \in 1..Len(excludes) : matchesPattern(path, Base(path), excludes[i])

----------------------------------------------------------------------------
(* The file system. Paths handed to it are absolute and clean: the          *)
(* interface builds the source and the output with filepath.Join from the   *)
(* working directory, and the engine derives every other path from them     *)
(* with filepath.Join.                                                      *)

DirNode == [kind |-> "dir", data |-> <<>>, link |-> <<>>, ok |-> TRUE]
LockedDirNode == [kind |-> "dir", data |-> <<>>, link |-> <<>>, ok |-> FALSE]
FileNode(bytes) == [kind |-> "file", data |-> bytes, link |-> <<>>, ok |-> TRUE]
LockedFileNode(bytes) == [kind |-> "file", data |-> bytes, link |-> <<>>, ok |-> FALSE]
LinkNode(target) == [kind |-> "symlink", data |-> <<>>, link |-> target, ok |-> TRUE]

Exists(d, p) == p \in DOMAIN d

IsDirAt(d, p) == Exists(d, p) /\ d[p].kind = "dir"

\* files can be created in the directory
CanCreateIn(d, dir) == IsDirAt(d, dir) /\ d[dir].ok

\* the function f with x mapped to v
Put(f, x, v) == [y \in DOMAIN f \cup {x} |-> IF y = x THEN v ELSE f[y]]

\* the function f without the key x
Drop(f, x) == [y \in DOMAIN f \ {x} |-> f[y]]

\* how deep a chain of symbolic links is followed
MaxLinkDepth == 3

\* what a link found in the directory cur leads to
LinkTarget(cur, link) == IF IsRooted(link) THEN Clean(link) ELSE Join(cur, link)

\* the elements segs resolved from the real directory cur, symbolic links
\* followed, as the kernel resolves a path
RECURSIVE ResolveElems(_, _, _, _)
RECURSIVE ResolveStep(_, _, _, _, _)
ResolveElems(d, cur, segs, fuel) ==
    IF segs = <<>> THEN cur
    ELSE ResolveStep(d, cur, Join(cur, Head(segs)), Tail(segs), fuel)

ResolveStep(d, cur, cand, rest, fuel) ==
    IF Exists(d, cand) /\ d[cand].kind = "symlink" /\ fuel > 0
    THEN ResolveElems(d, <<Sep>>, Elems(LinkTarget(cur, d[cand].link)) \o rest, fuel - 1)
    ELSE ResolveElems(d, cand, rest, fuel)

\* every symbolic link of p followed, the last element included (stat, open)
RealPath(d, p) == ResolveElems(d, <<Sep>>, Elems(p), MaxLinkDepth)

\* the links of p's directory followed, the last element kept (lstat, symlink)
RealParent(d, p) == Join(RealPath(d, Dir(p)), Base(p))

\* os.Stat: the node a path leads to, links followed
StatOk(d, p) == Exists(d, RealPath(d, p))
StatNode(d, p) == d[RealPath(d, p)]

\* bytes a stat of the node reports
NodeSize(n) == IF n.kind = "symlink" THEN Len(n.link) ELSE Len(n.data)

\* the character order of file names (ASCII)
Alphabet == <<".", "/", "0", "1", "2", "3", "4", "5", "6", "7", "8", "9",
              "A", "G", "I", "P", "R", "T", "Z", "_",
              "a", "b", "c", "d", "e", "f", "g", "h", "i", "j", "k", "l", "m",
              "n", "o", "p", "q", "r", "s", "t", "u", "v", "w", "x", "y", "z">>

Rank(c) == CHOOSE i \in 1..Len(Alphabet) : Alphabet[i] = c

\* a sorts before b (byte order, a proper prefix first)
RECURSIVE NameLess(_, _)
NameLess(a, b) ==
    IF a = <<>> THEN b # <<>>
    ELSE IF b = <<>> THEN FALSE
    ELSE IF Head(a) = Head(b) THEN NameLess(Tail(a), Tail(b))
    ELSE Rank(Head(a)) < Rank(Head(b))

\* the names in a directory
ChildNames(d, dir) == {Base(q) : q \in {r \in DOMAIN d : r # dir /\ Dir(r) = dir}}

RECURSIVE SortNames(_)
SortNames(S) ==
    IF S = {} THEN <<>>
    ELSE <<CHOOSE x \in S : \A y \in S \ {x} : NameLess(x, y)>>
         \o SortNames(S \ {CHOOSE x \in S : \A y \in S \ {x} : NameLess(x, y)})

\* os.ReadDir: the names in a directory, sorted
ReadDir(d, dir) == SortNames(ChildNames(d, dir))

----------------------------------------------------------------------------
(* File collector                                                          *)

\* the state the walk callback closes over: files, totalSize, excludedCount,
\* and the error that ended the walk ("" while it runs)
WalkStart == [files |-> <<>>, size |-> 0, excluded |-> 0, err |-> ""]

\* Rel's answer, or the fallback where Rel fails
OrElse(r, fallback) == IF r.ok THEN r.path ELSE fallback

\* the path of a visited node relative to the parent of the source; the path
\* itself where Rel fails
walkRelPath(source, path) == OrElse(Rel(Dir(source), path), path)

\* the walk state with one more file
walkAppend(st, path, node) ==
    [st EXCEPT !.files = Append(@, path), !.size = @ + NodeSize(node)]

\* a faulty variant of walkVisit: an excluded directory is counted but still entered
walkVisitNoPrune(node, excluded, path, st) ==
    IF excluded THEN [st |-> [st EXCEPT !.excluded = @ + 1], skip |-> FALSE]
    ELSE IF node.kind # "dir" THEN [st |-> walkAppend(st, path, node), skip |-> FALSE]
    ELSE [st |-> st, skip |-> FALSE]

\* the body of the callback once the exclusion test has been made: an
\* excluded node is counted, and skipped with its subtree (SkipDir) when it
\* is a directory; any other node that is not a directory joins the list
walkVisit(node, excluded, path, st) ==
    IF excluded THEN [st |-> [st EXCEPT !.excluded = @ + 1], skip |-> node.kind = "dir"]
    ELSE IF node.kind # "dir" THEN [st |-> walkAppend(st, path, node), skip |-> FALSE]
    ELSE [st |-> st, skip |-> FALSE]

\* a faulty variant of walkFn: the root of the walk is not tested
walkFnRootExempt(d, source, excludes, path, st) ==
    walkVisit(d[path],
              path # source /\ (shouldExclude(walkRelPath(source, path), excludes)
                                   \/ shouldExclude(path, excludes)),
              path, st)

\* the callback collectFiles hands to filepath.WalkDir, called on one node:
\* the node is tested under its relative and under its full path
walkFn(d, source, excludes, path, st) ==
    walkVisit(d[path],
              shouldExclude(walkRelPath(source, path), excludes)
                 \/ shouldExclude(path, excludes),
              path, st)

\* filepath.WalkDir below one node, pre-order, the names of a directory in
\* sorted order; a directory that cannot be read hands its error to the
\* callback, which returns it and so ends the walk
RECURSIVE walkDir(_, _, _, _, _)
RECURSIVE walkList(_, _, _, _, _, _)
walkInto(d, source, excludes, path, r) ==
    IF r.skip \/ d[path].kind # "dir" THEN r.st
    ELSE IF ~d[path].ok THEN [r.st EXCEPT !.err = "walk"]
    ELSE walkList(d, source, excludes, path, ReadDir(d, path), r.st)

walkDir(d, source, excludes, path, st) ==
    IF st.err # "" THEN st
    ELSE walkInto(d, source, excludes, path, walkFn(d, source, excludes, path, st))

walkList(d, source, excludes, dir, names, st) ==
    IF names = <<>> \/ st.err # "" THEN st
    ELSE walkList(d, source, excludes, dir, Tail(names),
                  walkDir(d, source, excludes, Join(dir, Head(names)), st))

\* a faulty variant of collectFiles: a single file goes through the exclusion test
collectFilesFiltered(d, source, excludes) ==
    IF ~StatOk(d, source) THEN [WalkStart EXCEPT !.err = "stat"]
    ELSE walkDir(d, source, excludes, source, WalkStart)

\* collectFiles: a source that is not a directory is the whole list and no
\* pattern is consulted; a directory is walked
collectFiles(d, source, excludes) ==
    IF ~StatOk(d, source) THEN [WalkStart EXCEPT !.err = "stat"]
    ELSE IF StatNode(d, source).kind # "dir"
         THEN walkAppend(WalkStart, source, StatNode(d, source))
    ELSE walkDir(d, source, excludes, source, WalkStart)

----------------------------------------------------------------------------
(* Archives                                                                *)

\* format tags
FmtZip == <<".", "z", "i", "p">>
FmtTar == <<".", "t", "a", "r">>
FmtTarGz == FmtTar \o <<".", "g", "z">>
FmtTarBz2 == FmtTar \o <<".", "b", "z", "2">>
FmtTarXz == FmtTar \o <<".", "x", "z">>
FmtTarZst == FmtTar \o <<".", "z", "s", "t">>
FmtTarLz4 == FmtTar \o <<".", "l", "z", "4">>
Fmt7z == <<".", "7", "z">>

\* the formats Compress has a writer for
CompressFormats == {FmtZip, FmtTarGz, FmtTarBz2, FmtTarXz, FmtTarZst, FmtTarLz4}

\* one stored entry
RegEntry(name, bytes) == [name |-> name, type |-> "reg", data |-> bytes, link |-> <<>>]
DirEntry(name) == [name |-> name, type |-> "dir", data |-> <<>>, link |-> <<>>]
LinkEntry(name, target) == [name |-> name, type |-> "symlink", data |-> <<>>, link |-> target]

\* the archive being written to a freshly created output file
NewArchive(fmt) == [fmt |-> fmt, entries |-> <<>>, closed |-> FALSE, key |-> <<>>]

RECURSIVE SumData(_)
SumData(es) == IF es = <<>> THEN 0 ELSE Len(Head(es).data) + SumData(Tail(es))

\* bytes of the archive that have reached the file: a header and the data of
\* every entry, and the trailer the writers flush when they are closed
ArchiveSize(a) == Len(a.entries) + SumData(a.entries) + (IF a.closed THEN 1 ELSE 0)

\* size a stat of the file at the real path p reports
FileSize(d, a, p) == IF p \in DOMAIN a THEN ArchiveSize(a[p]) ELSE NodeSize(d[p])

----------------------------------------------------------------------------
(* Statistics                                                              *)

ZeroStats == [TotalFiles |-> 0, ProcessedFiles |-> 0, TotalSize |-> 0,
              CompressedSize |-> 0, ExtractedSize |-> 0, ExcludedFiles |-> 0,
              CurrentFile |-> <<>>]

NoResult == [state |-> "none", err |-> "", stats |-> ZeroStats]
Failure(kind) == [state |-> "err", err |-> kind, stats |-> ZeroStats]
Success(st) == [state |-> "ok", err |-> "", stats |-> st]

\* a faulty variant of ctxCancelled: the loop never looks at the context
ctxIgnored(done) == FALSE

\* select on ctx.Done() with a default branch: whether the context is
\* cancelled at this moment
ctxCancelled(done) == done

----------------------------------------------------------------------------
(* Compress pipeline                                                       *)

\* the error that ends Compress before a writer is chosen, "" when there is
\* none: the source is missing, the collection fails, no file is left, the
\* format has no writer (c is what collectFiles returned)
compressValidate(d, o, c) ==
    IF ~StatOk(d, o.Source) THEN "NotFound"
    ELSE IF c.err # "" THEN "Collect"
    ELSE IF Len(c.files) = 0 THEN "EmptyInput"
    ELSE IF o.Format \notin CompressFormats THEN "UnsupportedFormat"
    ELSE ""

\* os.Create at the real path: the file is created or truncated; it fails
\* when the directory is missing or the path is a directory
createOutput(d, a, fmt, real, c) ==
    IF CanCreateIn(d, Dir(real)) /\ ~IsDirAt(d, real)
    THEN [err |-> "", disk |-> Put(d, real, FileNode(<<>>)),
          arcs |-> Put(a, real, NewArchive(fmt)), coll |-> c]
    ELSE [err |-> "Create", disk |-> d, arcs |-> a, coll |-> c]

\* the result of createOutput with the error v in it, if there is one
withError(r, v) == IF v # "" /\ r.err = "" THEN [r EXCEPT !.err = v] ELSE r

\* a faulty variant of compressOpen: the output file is created before the request
\* is validated
compressOpenEager(d, a, o, c) ==
    withError(createOutput(d, a, o.Format, RealPath(d, o.Output), c),
              compressValidate(d, o, c))

\* Compress up to the loop of the chosen writer: validation, then os.Create
\* of the output; [err, disk, arcs, coll]
compressOpen(d, a, o, c) ==
    IF compressValidate(d, o, c) # ""
    THEN [err |-> compressValidate(d, o, c), disk |-> d, arcs |-> a, coll |-> c]
    ELSE createOutput(d, a, o.Format, RealPath(d, o.Output), c)

\* a faulty variant of archiveName: every entry is stored under its base name
archiveNameFlat(source, file) == Base(file)

\* the name an entry is stored under: the file's path relative to the parent
\* of the source, its base name where Rel fails
archiveName(source, file) == OrElse(Rel(Dir(source), file), Base(file))

\* the file at the real path, read into an entry: the header is written
\* under the archive name and the bytes are copied; reading a directory fails
\* after the header has been written
addReal(d, real, name) ==
    IF ~Exists(d, real) \/ ~d[real].ok THEN [ok |-> FALSE, add |-> <<>>]
    ELSE IF d[real].kind = "dir" THEN [ok |-> FALSE, add |-> <<DirEntry(name)>>]
    ELSE [ok |-> TRUE, add |-> <<RegEntry(name, d[real].data)>>]

\* addFileToZip / addFileToTar: os.Open follows symbolic links
addFile(d, file, name) == addReal(d, RealPath(d, file), name)

\* a faulty variant of closeWriters: the file is removed when the loop ended in an
\* error
closeWritersRollback(d, a, out, failed) ==
    IF failed THEN [disk |-> Drop(d, out), arcs |-> Drop(a, out)]
    ELSE [disk |-> d, arcs |-> [a EXCEPT ![out].closed = TRUE]]

\* the deferred Close calls of a writer function: the container and codec
\* writers flush their trailers and the file is closed, whether the loop
\* ended in an error or not
closeWriters(d, a, out, failed) ==
    [disk |-> d, arcs |-> [a EXCEPT ![out].closed = TRUE]]

\* a faulty variant of compressedSize: the size is taken before the writers are closed
compressedSizeEarly(d, aOpen, aClosed, out) == FileSize(d, aOpen, out)

\* the size os.Stat reports for the output once the writer function has
\* returned
compressedSize(d, aOpen, aClosed, out) == FileSize(d, aClosed, out)


\* the call returns res once the writers c have been closed
EndWith(c, res) ==
    /\ disk' = c.disk
    /\ arcs' = c.arcs
    /\ pc' = "done"
    /\ result' = res

\* a faulty variant of entrySnapshot: the entry is named but not counted
entrySnapshotUncounted(st, k, name) == [st EXCEPT !.CurrentFile = name]

\* the statistics once they name the k-th entry
entrySnapshot(st, k, name) == [st EXCEPT !.ProcessedFiles = k, !.CurrentFile = name]

\* what a callback may leave in the snapshot it was handed: a callback of
\* any caller may keep it or overwrite its fields; the callback of the
\* interface leaves it alone
wiped(st) == [ZeroStats EXCEPT !.CurrentFile = st.CurrentFile]

callbackLeaves(interface, st) == IF interface THEN {st} ELSE {st, wiped(st)}

\* a faulty variant of afterCallback: the callback was handed the statistics
\* themselves
afterCallbackShared(st, left) == left

\* the statistics of the pipeline after the call opts.OnStats(*stats): the
\* callback was handed a copy, left is what it made of it
afterCallback(st, left) == st

\* capacity of the progress channel: 100 in the program, kept small here so
\* that the channel fills up
ChanCap == 2

NoChan == [buf |-> <<>>, closed |-> FALSE]

\* a faulty variant of trySend: the send waits for room in the channel
sendBlocking(ch, msg) ==
    [done |-> Len(ch.buf) < ChanCap, chan |-> [ch EXCEPT !.buf = Append(@, msg)]]

\* the send of the interface's OnStats, a select with a default case:
\* [done, chan]; the message is dropped when the channel is full
trySend(ch, msg) ==
    [done |-> TRUE,
     chan |-> IF Len(ch.buf) < ChanCap THEN [ch EXCEPT !.buf = Append(@, msg)] ELSE ch]

\* OnStats has been called with a copy of st: snd is the outcome of the send
\* the interface's callback makes, left is what the callback left in its copy
OnStatsCalled(st, snd, left) ==
    /\ snd.done
    /\ chan' = IF ui.on THEN snd.chan ELSE chan
    /\ held' = left
    /\ stats' = afterCallback(st, left)

\* the statistics name the next entry and OnStats receives a copy
Emit(st) ==
    /\ \E left \in callbackLeaves(ui.on, st) : OnStatsCalled(st, trySend(chan, st), left)
    /\ emitted' = Append(emitted, st)
    /\ pc' = "entry"

\* a faulty variant of sealKey: every writer encrypts under the password
sealKeyAll(fmt, password) == password

\* the key the entries of a new archive are encrypted under, the empty key
\* where they are stored in the clear: the ZIP writer honours the password of
\* the request, the other writers ignore it
sealKey(fmt, password) == IF fmt = FmtZip THEN password ELSE <<>>

\* the archives with the one just created at out set up for the key
sealed(a, out, key) == [a EXCEPT ![out].key = key]

\* Compress from its entry to the first loop-top check; r is what
\* compressOpen returned
CompressBegin(r) ==
    /\ disk' = r.disk
    /\ arcs' = IF r.err # "" THEN r.arcs
               ELSE sealed(r.arcs, RealPath(r.disk, opts.Output),
                           sealKey(opts.Format, opts.Password))
    /\ IF r.err # ""
       THEN /\ pc' = "done"
            /\ result' = Failure(r.err)
            /\ UNCHANGED <<files, stats>>
       ELSE /\ pc' = "loop"
            /\ files' = r.coll.files
            /\ stats' = [ZeroStats EXCEPT !.TotalFiles = Len(r.coll.files),
                                          !.TotalSize = r.coll.size,
                                          !.ExcludedFiles = r.coll.excluded]
            /\ UNCHANGED result

CompressStart ==
    /\ pc = "start" /\ opts.op = "compress"
    /\ CompressBegin(compressOpen(disk, arcs, opts,
                                  collectFiles(disk, opts.Source, opts.Excludes)))
    /\ idx' = 0
    /\ UNCHANGED <<opts, emitted, ctxDone, touched, cancelAt, origin, before,
                   held, chan, lsn, ui>>

\* top of one loop iteration: a cancelled context ends the writer function;
\* otherwise the statistics name the entry and the snapshot is handed out
CompressCheck ==
    /\ pc = "loop" /\ opts.op = "compress" /\ idx < Len(files)
    /\ IF ctxCancelled(ctxDone)
       THEN /\ EndWith(closeWriters(disk, arcs, RealPath(disk, opts.Output), TRUE),
                       Failure("Cancelled"))
            /\ UNCHANGED <<stats, emitted, held, chan>>
       ELSE /\ Emit(entrySnapshot(stats, idx + 1, archiveName(opts.Source, files[idx + 1])))
            /\ UNCHANGED <<disk, arcs, result>>
    /\ UNCHANGED <<opts, files, idx, ctxDone, touched, cancelAt, origin, before, lsn, ui>>

\* a faulty variant of CompressAdded: the context is checked once more when
\* the entry has been written
CompressAddedThenCheck(r, out) ==
    IF r.ok /\ ~ctxDone
    THEN /\ arcs' = [arcs EXCEPT ![out].entries = @ \o r.add]
         /\ idx' = idx + 1
         /\ pc' = "loop"
         /\ UNCHANGED <<disk, result>>
    ELSE IF r.ok
    THEN /\ EndWith(closeWriters(disk, [arcs EXCEPT ![out].entries = @ \o r.add], out, TRUE),
                    Failure("Cancelled"))
         /\ idx' = idx + 1
    ELSE /\ EndWith(closeWriters(disk, [arcs EXCEPT ![out].entries = @ \o r.add], out, TRUE),
                    Failure("IO"))
         /\ UNCHANGED idx

\* the archive at out with the entries of r added; a failure ends the call
CompressAdded(r, out) ==
    IF r.ok
    THEN /\ arcs' = [arcs EXCEPT ![out].entries = @ \o r.add]
         /\ idx' = idx + 1
         /\ pc' = "loop"
         /\ UNCHANGED <<disk, result>>
    ELSE /\ EndWith(closeWriters(disk, [arcs EXCEPT ![out].entries = @ \o r.add], out, TRUE),
                    Failure("IO"))
         /\ UNCHANGED idx

\* rest of the iteration: the file is added to the archive
CompressEntry ==
    /\ pc = "entry" /\ opts.op = "compress"
    /\ CompressAdded(addFile(disk, files[idx + 1], archiveName(opts.Source, files[idx + 1])),
                     RealPath(disk, opts.Output))
    /\ UNCHANGED <<opts, files, stats, emitted, ctxDone, touched, cancelAt, origin, before,
                   held, chan, lsn, ui>>

\* the final statistics: the output is measured after the writers c have
\* been closed
CompressFinish(c, out) ==
    /\ stats' = [stats EXCEPT !.CompressedSize = compressedSize(c.disk, arcs, c.arcs, out)]
    /\ EndWith(c, Success(stats'))

\* the loop has run out of files: the writers are closed, the output is
\* measured and the final statistics are returned
CompressReturn ==
    /\ pc = "loop" /\ opts.op = "compress" /\ idx = Len(files)
    /\ CompressFinish(closeWriters(disk, arcs, RealPath(disk, opts.Output), FALSE),
                      RealPath(disk, opts.Output))
    /\ UNCHANGED <<opts, files, idx, emitted, ctxDone, touched, cancelAt, origin, before,
                   held, chan, lsn, ui>>

\* the caller cancels the context while the operation runs
Cancel ==
    /\ pc # "done" /\ ~ctxDone
    /\ ctxDone' = TRUE
    /\ cancelAt' = [n |-> idx, pc |-> pc]
    /\ UNCHANGED <<disk, arcs, opts, pc, files, idx, stats, emitted, result, touched,
                   origin, before,
                   held, chan, lsn, ui>>

----------------------------------------------------------------------------
(* Extract pipeline                                                        *)

\* a faulty variant of detectLower: the case of .tar.lz4 is missing
detectLowerNoLz4(lower) ==
    IF HasSuffix(lower, FmtZip) THEN FmtZip
    ELSE IF HasSuffix(lower, FmtTarGz) \/ HasSuffix(lower, <<".", "t", "g", "z">>)
         THEN FmtTarGz
    ELSE IF HasSuffix(lower, FmtTarBz2) \/ HasSuffix(lower, <<".", "t", "b", "z", "2">>)
         THEN FmtTarBz2
    ELSE IF HasSuffix(lower, FmtTarXz) \/ HasSuffix(lower, <<".", "t", "x", "z">>)
         THEN FmtTarXz
    ELSE IF HasSuffix(lower, FmtTarZst) \/ HasSuffix(lower, <<".", "t", "z", "s", "t">>)
         THEN FmtTarZst
    ELSE IF HasSuffix(lower, FmtTar) THEN FmtTar
    ELSE <<>>

\* DetectArchiveFormat on the lowered name: the first suffix that matches
detectLower(lower) ==
    IF HasSuffix(lower, FmtZip) THEN FmtZip
    ELSE IF HasSuffix(lower, FmtTarGz) \/ HasSuffix(lower, <<".", "t", "g", "z">>)
         THEN FmtTarGz
    ELSE IF HasSuffix(lower, FmtTarBz2) \/ HasSuffix(lower, <<".", "t", "b", "z", "2">>)
         THEN FmtTarBz2
    ELSE IF HasSuffix(lower, FmtTarXz) \/ HasSuffix(lower, <<".", "t", "x", "z">>)
         THEN FmtTarXz
    ELSE IF HasSuffix(lower, FmtTarZst) \/ HasSuffix(lower, <<".", "t", "z", "s", "t">>)
         THEN FmtTarZst
    ELSE IF HasSuffix(lower, FmtTarLz4) THEN FmtTarLz4
    ELSE IF HasSuffix(lower, FmtTar) THEN FmtTar
    ELSE <<>>

DetectArchiveFormat(filename) == detectLower(ToLower(filename))

\* os.MkdirAll at a real path: [ok, disk]; an existing directory is left
\* alone, a missing one is created after its parent, anything else in the
\* way is an error
RECURSIVE MkdirReal(_, _)
MkdirUnder(up, parent, real) ==
    IF ~up.ok \/ ~up.disk[parent].ok THEN [ok |-> FALSE, disk |-> up.disk]
    ELSE [ok |-> TRUE, disk |-> Put(up.disk, real, DirNode)]

MkdirReal(d, real) ==
    IF Exists(d, real) THEN [ok |-> d[real].kind = "dir", disk |-> d]
    ELSE MkdirUnder(MkdirReal(d, Dir(real)), Dir(real), real)

\* os.MkdirAll
MkdirAll(d, p) == MkdirReal(d, RealPath(d, p))

\* os.OpenFile(O_WRONLY|O_CREATE|O_TRUNC) at a real path and the copy into
\* it: [ok, disk, over]; over holds the file created or truncated
WriteReal(d, real, bytes) ==
    IF CanCreateIn(d, Dir(real)) /\ ~IsDirAt(d, real)
    THEN [ok |-> TRUE, disk |-> Put(d, real, FileNode(bytes)), over |-> {real}]
    ELSE [ok |-> FALSE, disk |-> d, over |-> {}]

WriteFile(d, p, bytes) == WriteReal(d, RealPath(d, p), bytes)

\* os.Symlink: [ok, disk]; fails when the name is taken
SymlinkAt(d, target, at) ==
    IF CanCreateIn(d, Dir(at)) /\ ~Exists(d, at)
    THEN [ok |-> TRUE, disk |-> Put(d, at, LinkNode(target))]
    ELSE [ok |-> FALSE, disk |-> d]

Symlink(d, target, p) == SymlinkAt(d, target, RealParent(d, p))


\* the readers that fail inside their constructor on a stream of another
\* format; the others fail at the first read of a header
EagerFormats == {FmtZip, FmtTarGz, FmtTarXz}

\* the archive file at the real path src holds a complete archive of the
\* format
SourceIntact(a, src, fmt) == src \in DOMAIN a /\ a[src].fmt = fmt /\ a[src].closed

\* what the opened reader will yield
readEntries(a, src, fmt) == IF SourceIntact(a, src, fmt) THEN a[src].entries ELSE <<>>

\* a faulty variant of extractOpen: the output directory is created first
extractOpenEager(d, a, o, fmt, mk, src) ==
    IF ~mk.ok THEN [err |-> "Mkdir", disk |-> mk.disk, entries |-> <<>>]
    ELSE IF ~Exists(d, src)
         THEN [err |-> "NotFound", disk |-> mk.disk, entries |-> <<>>]
    ELSE IF fmt = <<>>
         THEN [err |-> "UnsupportedFormat", disk |-> mk.disk, entries |-> <<>>]
    ELSE [err |-> "", disk |-> mk.disk, entries |-> readEntries(a, src, fmt)]

\* Extract up to the loop of the chosen reader: the source is stat'ed, the
\* format is detected from its name, the output directory is created, the
\* reader is opened. fmt is the detected format, mk the outcome of MkdirAll on
\* the output, src the real path of the source; [err, disk, entries]
extractOpen(d, a, o, fmt, mk, src) ==
    IF ~Exists(d, src)
    THEN [err |-> "NotFound", disk |-> d, entries |-> <<>>]
    ELSE IF fmt = <<>>
         THEN [err |-> "UnsupportedFormat", disk |-> d, entries |-> <<>>]
    ELSE IF ~mk.ok
         THEN [err |-> "Mkdir", disk |-> mk.disk, entries |-> <<>>]
    ELSE IF fmt \in EagerFormats /\ ~SourceIntact(a, src, fmt)
         THEN [err |-> "IO", disk |-> mk.disk, entries |-> <<>>]
    ELSE [err |-> "", disk |-> mk.disk, entries |-> readEntries(a, src, fmt)]

\* the check both readers make on the target of an entry
pathAllowed(output, name) ==
    HasPrefix(Clean(Join(output, name)), Clean(output))

\* what putting an entry on disk comes to: [ok, disk, written, paths, wrote,
\* over]; ok is FALSE where the reader returns an error, written are the bytes
\* added to ExtractedSize, paths the targets handed to MkdirAll, wrote the
\* targets written as a file or made as a link, over the real paths of the
\* files created or truncated
NotPut(d) ==
    [ok |-> FALSE, disk |-> d, written |-> 0, paths |-> {}, wrote |-> {}, over |-> {}]

\* a directory entry: MkdirAll on the target
dirPut(mk, target) ==
    [ok |-> mk.ok, disk |-> mk.disk, written |-> 0,
     paths |-> {target}, wrote |-> {}, over |-> {}]

\* a file entry: the file is created in the directory made for it
filePut(wr, target, bytes) ==
    [ok |-> wr.ok, disk |-> wr.disk, written |-> IF wr.ok THEN Len(bytes) ELSE 0,
     paths |-> {Dir(target)}, wrote |-> IF wr.ok THEN {target} ELSE {}, over |-> wr.over]

fileEntry(up, target, bytes) ==
    IF ~up.ok THEN NotPut(up.disk) ELSE filePut(WriteFile(up.disk, target, bytes), target, bytes)

\* a symbolic link entry: a link that cannot be made is passed over
linkPut(ln, target) ==
    [ok |-> TRUE, disk |-> ln.disk, written |-> 0,
     paths |-> {Dir(target)}, wrote |-> IF ln.ok THEN {target} ELSE {}, over |-> {}]

linkEntry(up, link, target) ==
    IF ~up.ok THEN NotPut(up.disk) ELSE linkPut(Symlink(up.disk, link, target), target)

\* one entry put at its target. ZIP knows directories and files (a stored
\* link is written as a file holding the link text); TAR knows directories,
\* files and links, and passes over any other type
extractAt(d, fmt, e, target) ==
    IF e.type = "dir" THEN dirPut(MkdirAll(d, target), target)
    ELSE IF e.type = "reg" THEN fileEntry(MkdirAll(d, Dir(target)), target, e.data)
    ELSE IF e.type = "symlink" /\ fmt = FmtZip
         THEN fileEntry(MkdirAll(d, Dir(target)), target, e.link)
    ELSE IF e.type = "symlink" THEN linkEntry(MkdirAll(d, Dir(target)), e.link, target)
    ELSE [ok |-> TRUE, disk |-> d, written |-> 0, paths |-> {}, wrote |-> {}, over |-> {}]

\* one entry put on disk once its target has passed the check
extractEntry(d, o, fmt, e) == extractAt(d, fmt, e, Join(o.Output, e.name))

\* a faulty variant of extractTotal: every reader announces the number of
\* entries
extractTotalKnown(fmt, n) == n

\* the TotalFiles the reader starts with: the ZIP reader knows the number of
\* entries of the archive, the TAR readers start at zero
extractTotal(fmt, n) == IF fmt = FmtZip THEN n ELSE 0

\* Extract from its entry to the first loop-top check; r is what extractOpen
\* returned
ExtractBegin(r, fmt, size) ==
    /\ disk' = r.disk
    /\ touched' = touched \cup {q \in {opts.Output} : ~StatOk(disk, q) /\ StatOk(r.disk, q)}
    /\ files' = r.entries
    /\ IF r.err # ""
       THEN /\ pc' = "done"
            /\ result' = Failure(r.err)
            /\ UNCHANGED stats
       ELSE /\ pc' = "loop"
            /\ stats' = [ZeroStats EXCEPT
                            !.TotalSize = size,
                            !.TotalFiles = extractTotal(fmt, Len(r.entries))]
            /\ UNCHANGED result

ExtractStart ==
    /\ pc = "start" /\ opts.op = "extract"
    /\ ExtractBegin(extractOpen(disk, arcs, opts, DetectArchiveFormat(opts.Source),
                                MkdirAll(disk, opts.Output), RealPath(disk, opts.Source)),
                    DetectArchiveFormat(opts.Source),
                    IF StatOk(disk, opts.Source)
                    THEN FileSize(disk, arcs, RealPath(disk, opts.Source)) ELSE 0)
    /\ idx' = 0
    /\ UNCHANGED <<arcs, opts, emitted, ctxDone, cancelAt, origin, before,
                   held, chan, lsn, ui>>

\* top of one loop iteration. ZIP: the context is checked, then the snapshot
\* is handed out. TAR: the context is checked, then the next header is read,
\* and the end of the stream ends the call with success
ExtractTop(fmt, intact) ==
    /\ fmt = FmtZip => idx < Len(files)
    /\ IF ctxCancelled(ctxDone)
       THEN /\ pc' = "done"
            /\ result' = Failure("Cancelled")
            /\ UNCHANGED <<stats, emitted, held, chan>>
       ELSE IF fmt # FmtZip /\ ~intact
       THEN /\ pc' = "done"
            /\ result' = Failure("IO")
            /\ UNCHANGED <<stats, emitted, held, chan>>
       ELSE IF fmt # FmtZip /\ idx = Len(files)
       THEN /\ pc' = "done"
            /\ stats' = [stats EXCEPT !.TotalFiles = idx]
            /\ result' = Success(stats')
            /\ UNCHANGED <<emitted, held, chan>>
       ELSE /\ Emit(entrySnapshot(stats, idx + 1, files[idx + 1].name))
            /\ UNCHANGED result

ExtractCheck ==
    /\ pc = "loop" /\ opts.op = "extract"
    /\ ExtractTop(DetectArchiveFormat(opts.Source),
                  SourceIntact(arcs, RealPath(disk, opts.Source),
                               DetectArchiveFormat(opts.Source)))
    /\ UNCHANGED <<disk, arcs, opts, files, idx, ctxDone, touched, cancelAt, origin, before, lsn, ui>>

\* the call ends at this entry with an error and leaves the disk as it is
ExtractAbort(kind) ==
    /\ pc' = "done"
    /\ result' = Failure(kind)
    /\ UNCHANGED <<disk, arcs, idx, stats, touched>>

\* the entry has been put on disk with the outcome r
ExtractPut(r) ==
    /\ disk' = r.disk
    /\ arcs' = [q \in DOMAIN arcs \ r.over |-> arcs[q]]
    /\ touched' = touched \cup r.wrote
                    \cup {q \in r.paths : ~StatOk(disk, q) /\ StatOk(r.disk, q)}
    /\ IF r.ok
       THEN /\ idx' = idx + 1
            /\ stats' = [stats EXCEPT !.ExtractedSize = @ + r.written]
            /\ pc' = "loop"
            /\ UNCHANGED result
       ELSE /\ pc' = "done"
            /\ result' = Failure("IO")
            /\ UNCHANGED <<idx, stats>>

\* a faulty variant of decrypts: the content is handed out whatever the
\* password is
decryptsAny(a, password, e) == TRUE

\* the reader can hand out the content of the entry: directories carry none,
\* an archive under the empty key is stored in the clear, an encrypted one
\* opens under the password it was written with
decrypts(a, password, e) == e.type = "dir" \/ a.key = <<>> \/ a.key = password

\* rest of the iteration: the target is checked and the entry is put on disk
ExtractEntry ==
    /\ pc = "entry" /\ opts.op = "extract"
    /\ IF ~SourceIntact(arcs, RealPath(disk, opts.Source), DetectArchiveFormat(opts.Source))
       THEN ExtractAbort("IO")
       ELSE IF ~pathAllowed(opts.Output, files[idx + 1].name)
       THEN ExtractAbort("PathTraversal")
       ELSE IF ~decrypts(arcs[RealPath(disk, opts.Source)], opts.Password, files[idx + 1])
       THEN ExtractAbort("WrongPassword")
       ELSE ExtractPut(extractEntry(disk, opts, DetectArchiveFormat(opts.Source),
                                    files[idx + 1]))
    /\ UNCHANGED <<opts, files, emitted, ctxDone, cancelAt, origin, before,
                   held, chan, lsn, ui>>

\* ZIP: the loop has run out of entries
ExtractReturn ==
    /\ pc = "loop" /\ opts.op = "extract"
    /\ DetectArchiveFormat(opts.Source) = FmtZip
    /\ idx = Len(files)
    /\ pc' = "done"
    /\ result' = Success(stats)
    /\ UNCHANGED <<disk, arcs, opts, files, idx, stats, emitted, ctxDone, touched,
                   cancelAt, origin, before,
                   held, chan, lsn, ui>>

----------------------------------------------------------------------------
(* The caller: requests and the file systems they run on                   *)

nW == <<"w">>
nS == <<"s">>
nA == <<"a">>
nB == <<"b">>
nD == <<"d">>
nE == <<"e">>
nL == <<"l">>
nQ == <<"q">>
nX == <<"x">>
nY == <<"y">>
nK == <<"k">>
nO == <<"o">>
nS2 == <<"s", "2">>
nALog == <<"a", ".", "l", "o", "g">>
nKeep == <<"k", "e", "e", "p", ".", "t", "x", "t">>
nNodeModules == <<"n", "o", "d", "e", "_", "m", "o", "d", "u", "l", "e", "s">>
nXJs == <<"x", ".", "j", "s">>
pStarLog == <<"*", ".", "l", "o", "g">>
pSecret == <<"s", "e", "c", "r", "e", "t">>
pWrong == <<"w", "r", "o", "n", "g">>

\* the absolute path with the given elements
P(names) == <<Sep>> \o JoinSep(names)

\* the file system holding the given <<path, node>> pairs
MkDisk(pairs) == [q \in {x[1] : x \in pairs} |-> (CHOOSE x \in pairs : x[1] = q)[2]]

BaseNodes == {<<P(<<>>), DirNode>>, <<P(<<nW>>), DirNode>>, <<P(<<nW, nS>>), DirNode>>}

\* source trees below /w/s
TreePlain == {<<P(<<nW, nS, nA>>), FileNode(<<1>>)>>,
              <<P(<<nW, nS, nD>>), DirNode>>,
              <<P(<<nW, nS, nD, nB>>), FileNode(<<2, 3>>)>>,
              <<P(<<nW, nS, nD, nE>>), DirNode>>,
              <<P(<<nW, nS, nX>>), FileNode(<<>>)>>}
TreeExample == {<<P(<<nW, nS, nALog>>), FileNode(<<1>>)>>,
                <<P(<<nW, nS, nKeep>>), FileNode(<<2>>)>>,
                <<P(<<nW, nS, nNodeModules>>), DirNode>>,
                <<P(<<nW, nS, nNodeModules, nXJs>>), FileNode(<<3>>)>>}
TreeEmpty == {<<P(<<nW, nS, nD>>), DirNode>>}
TreeFileLink == {<<P(<<nW, nS, nA>>), FileNode(<<1>>)>>,
                 <<P(<<nW, nS, nL>>), LinkNode(nA)>>}
TreeDirLink == {<<P(<<nW, nS, nD>>), DirNode>>,
                <<P(<<nW, nS, nD, nB>>), FileNode(<<2, 3>>)>>,
                <<P(<<nW, nS, nL>>), LinkNode(nD)>>}
TreeLockedDir == {<<P(<<nW, nS, nA>>), FileNode(<<1>>)>>,
                  <<P(<<nW, nS, nD>>), LockedDirNode>>,
                  <<P(<<nW, nS, nD, nB>>), FileNode(<<2, 3>>)>>}
TreeLockedFile == {<<P(<<nW, nS, nA>>), FileNode(<<1>>)>>,
                   <<P(<<nW, nS, nB>>), LockedFileNode(<<2>>)>>}
TreeLogDir == {<<P(<<nW, nS, nALog>>), DirNode>>,
               <<P(<<nW, nS, nALog, nB>>), FileNode(<<1>>)>>,
               <<P(<<nW, nS, nD>>), DirNode>>,
               <<P(<<nW, nS, nD, nD>>), DirNode>>,
               <<P(<<nW, nS, nD, nD, nA>>), FileNode(<<2>>)>>,
               <<P(<<nW, nS, nD, nA>>), FileNode(<<3>>)>>,
               <<P(<<nW, nS, nB>>), FileNode(<<4>>)>>}

Trees == {TreePlain, TreeExample, TreeEmpty, TreeFileLink, TreeDirLink,
          TreeLockedDir, TreeLockedFile, TreeLogDir}

ExcludeLists == {<<>>, <<pStarLog, nNodeModules>>, <<nD>>, <<nA>>, <<nS>>, <<nB, pStarLog>>,
                 <<nW>>}

\* the sources a request names: the directory, one file of it, nothing
Sources == {P(<<nW, nS>>), P(<<nW, nS, nA>>), P(<<nW, nQ>>)}

CompressOpts(src, out, fmt, ex) ==
    [op |-> "compress", Source |-> src, Output |-> out, Format |-> fmt, Excludes |-> ex,
     Password |-> <<>>]

ExtractOpts(src, out) ==
    [op |-> "extract", Source |-> src, Output |-> out, Format |-> <<>>, Excludes |-> <<>>,
     Password |-> <<>>]

\* a Compress request on a tree. The output is the source path followed by
\* the format tag, as the interface names it, or (lost) a path in a directory
\* that is missing; the output may exist already (pre)
CompressScenario(t, src, fmt, ex, pre, lost) ==
    [disk |-> MkDisk(BaseNodes \cup t \cup
                     (IF pre THEN {<<src \o fmt, FileNode(<<9, 9, 9, 9, 9, 9, 9, 9, 9>>)>>}
                      ELSE {})),
     arcs |-> << >>,
     opts |-> CompressOpts(src, (IF lost THEN P(<<nW, nQ, nO>>) ELSE src) \o fmt, fmt, ex)]

CompressScenarios ==
    {CompressScenario(t, P(<<nW, nS>>), fmt, ex, FALSE, FALSE) :
        t \in Trees, fmt \in {FmtZip, FmtTarGz}, ex \in ExcludeLists}
    \cup
    {CompressScenario(TreePlain, src, fmt, ex, pre, lost) :
        src \in Sources, fmt \in CompressFormats \cup {FmtTar, Fmt7z},
        ex \in {<<>>, <<nA>>}, pre \in BOOLEAN, lost \in BOOLEAN}
    \cup
    \* requests that carry a password
    {[CompressScenario(t, P(<<nW, nS>>), fmt, <<>>, FALSE, FALSE)
         EXCEPT !.opts.Password = pSecret] :
        t \in {TreePlain, TreeLogDir}, fmt \in {FmtZip, FmtTarGz, FmtTarLz4}}


\* the entries an archive handed to Extract is made of: plain files, a
\* directory, names that climb out of the output directory, a symbolic link
\* that leaves it and a file stored below that link
UpUp(name) == DotDot \o <<Sep>> \o DotDot \o <<Sep>> \o name
Up(name) == DotDot \o <<Sep>> \o name
Below(dir, name) == dir \o <<Sep>> \o name

EntryUniverse ==
    {RegEntry(nA, <<1>>),
     RegEntry(Below(nD, nB), <<2, 3>>),
     DirEntry(nD),
     RegEntry(UpUp(Below(nE, nY)), <<4>>),
     RegEntry(Up(Below(nS2, nX)), <<5>>),
     LinkEntry(nK, P(<<nE>>)),
     RegEntry(Below(nK, nY), <<6>>)}

\* longest archive handed to Extract
MaxEntries == 2

EntrySeqs == UNION {[1..n -> EntryUniverse] : n \in 0..MaxEntries}

ExtractBase == {<<P(<<>>), DirNode>>, <<P(<<nW>>), DirNode>>, <<P(<<nE>>), DirNode>>}

\* what is at the output directory /w/s before the call: nothing, a
\* directory holding a file named d, or a file
OutputStates ==
    [absent |-> {},
     blocked |-> {<<P(<<nW, nS>>), DirNode>>, <<P(<<nW, nS, nD>>), FileNode(<<8>>)>>},
     file |-> {<<P(<<nW, nS>>), FileNode(<<8>>)>>}]

\* an Extract request: the archive file `name` in /w holds the entries es in
\* format fmt; the output directory is /w/s
ExtractScenario(name, fmt, es, have) ==
    [disk |-> MkDisk(ExtractBase \cup OutputStates[have]
                     \cup {<<P(<<nW, name>>), FileNode(<<>>)>>}),
     arcs |-> [q \in {P(<<nW, name>>)} |-> [fmt |-> fmt, entries |-> es, closed |-> TRUE, key |-> <<>>]],
     opts |-> ExtractOpts(P(<<nW, name>>), P(<<nW, nS>>))]

\* names an archive file may carry: the short forms, upper and mixed case, a
\* recognized suffix that is not at the end, and one that lacks its dot
SuffixSamples ==
    {<<".", "t", "b", "z", "2">>, <<".", "t", "x", "z">>, <<".", "t", "z", "s", "t">>,
     <<".", "T", "G", "Z">>, <<".", "T", "a", "r", ".", "X", "z">>,
     <<".", "T", "A", "R", ".", "L", "Z", "4">>, <<".", "T", "B", "Z", "2">>,
     <<".", "7", "Z">>, <<".", "g", "z">>, <<"z", "i", "p">>,
     <<".", "z", "i", "p", ".", "t", "x", "t">>, <<".", "t", "a", "r", ".">>}

FixedEntries == <<DirEntry(nD), RegEntry(Below(nD, nB), <<2, 3>>), RegEntry(nA, <<1>>)>>

ExtractScenarios ==
    {ExtractScenario(nS \o fmt, fmt, es, "absent") :
        fmt \in {FmtZip, FmtTar, FmtTarGz}, es \in EntrySeqs}
    \cup
    {ExtractScenario(nS \o fmt, fmt, FixedEntries, have) :
        fmt \in CompressFormats \cup {FmtTar}, have \in {"absent", "blocked", "file"}}
    \cup
    \* names without a recognized suffix, upper case, short suffixes
    {ExtractScenario(nS \o sfx, FmtZip, FixedEntries, have) :
        sfx \in {<<".", "t", "x", "t">>, <<>>, Fmt7z, <<".", "Z", "I", "P">>},
        have \in {"absent", "blocked"}}
    \cup
    {ExtractScenario(nS \o <<".", "t", "g", "z">>, FmtTarGz, FixedEntries, "absent")}
    \cup
    {ExtractScenario(nS \o sfx, FmtZip, FixedEntries, "absent") : sfx \in SuffixSamples}
    \cup
    \* archives named after a source whose own name ends like an archive
    {ExtractScenario(nS \o inner \o fmt, fmt, FixedEntries, "absent") :
        inner \in {FmtTar, FmtZip, <<".", "T", "G", "Z">>}, fmt \in CompressFormats}
    \cup
    \* a file whose content is not what its name says
    {ExtractScenario(nS \o FmtZip, FmtTarGz, FixedEntries, "absent"),
     ExtractScenario(nS \o FmtTarGz, FmtZip, FixedEntries, "absent"),
     ExtractScenario(nS \o FmtTar, FmtZip, FixedEntries, "absent"),
     ExtractScenario(nS \o FmtTarLz4, FmtTarGz, FixedEntries, "absent")}
    \cup
    \* a link that cannot be made, its name being taken, before a file
    {ExtractScenario(nS \o FmtTar, FmtTar,
                     <<LinkEntry(nK, P(<<nE>>)), LinkEntry(nK, P(<<nW>>)),
                       RegEntry(nA, <<1>>)>>, "absent")}
    \cup
    \* an encrypted ZIP archive and the password given for it
    {[ExtractScenario(nS \o FmtZip, FmtZip, FixedEntries, "absent")
         EXCEPT !.arcs[P(<<nW, nS \o FmtZip>>)].key = pSecret, !.opts.Password = pw] :
        pw \in {<<>>, pSecret, pWrong}}
    \cup
    \* a password given for archives stored in the clear
    {[ExtractScenario(nS \o fmt, fmt, FixedEntries, "absent")
         EXCEPT !.opts.Password = pSecret] : fmt \in {FmtZip, FmtTarGz}}
    \cup
    \* an entry that names the archive file itself
    {ExtractScenario(nS \o FmtZip, FmtZip,
                     <<RegEntry(Up(nS \o FmtZip), <<7>>), RegEntry(nA, <<1>>)>>, "absent")}
    \cup
    \* a source that does not exist
    {[disk |-> MkDisk(ExtractBase), arcs |-> << >>,
      opts |-> ExtractOpts(P(<<nW, nQ \o sfx>>), P(<<nW, nS>>))] :
        sfx \in {FmtZip, FmtTarGz, <<".", "t", "x", "t">>}}

Scenarios == CompressScenarios \cup ExtractScenarios

NoOrigin == [on |-> FALSE, plain |-> FALSE, files |-> {}]

NoCancel == [n |-> -1, pc |-> ""]

----------------------------------------------------------------------------
(* Round trip: the caller extracts the archive Compress produced           *)

\* p is root or lies below it, by whole path elements
Within(root, p) ==
    \/ p = root
    \/ HasPrefix(p, IF root = <<Sep>> THEN root ELSE root \o <<Sep>>)

\* the files at and below the source, each with its path relative to the
\* parent of the source and the bytes a read of it yields
SourceFiles(d, source) ==
    {<<Rel(Dir(source), q).path, d[RealPath(d, q)].data>> :
        q \in {r \in DOMAIN d : Within(source, r) /\ d[r].kind # "dir"}}

\* the files below the output directory, each with its path relative to it
ExtractedFiles(d, out) ==
    {<<Rel(out, q).path, d[q].data>> :
        q \in {r \in DOMAIN d : Within(out, r) /\ r # out /\ d[r].kind # "dir"}}

\* the output directories the caller extracts a produced archive into: a
\* directory that does not exist yet
FreshOutputs == {P(<<nW, nX>>)}

\* the passwords the caller extracts with: the one it compressed with and,
\* where it set one, another
ExtractPasswords(password) == {password} \cup (IF password = <<>> THEN {} ELSE {pWrong})

\* after a successful Compress the caller calls Extract on its output, under
\* a new context; the source files are remembered where the password is the
\* one of the Compress call
CallExtract ==
    /\ pc = "done" /\ opts.op = "compress" /\ result.state = "ok"
    /\ \E out \in FreshOutputs, pw \in ExtractPasswords(opts.Password) :
          /\ opts' = [ExtractOpts(opts.Output, out) EXCEPT !.Password = pw]
          /\ origin' = IF pw # opts.Password THEN NoOrigin
                       ELSE [on |-> TRUE, plain |-> opts.Excludes = <<>>,
                             files |-> SourceFiles(disk, opts.Source)]
    /\ pc' = "start"
    /\ files' = <<>>
    /\ idx' = 0
    /\ stats' = ZeroStats
    /\ emitted' = <<>>
    /\ ctxDone' = FALSE
    /\ result' = NoResult
    /\ touched' = {}
    /\ cancelAt' = NoCancel
    /\ before' = [disk |-> disk, arcs |-> arcs]
    /\ held' = ZeroStats
    /\ UNCHANGED <<disk, arcs, chan, lsn, ui>>

----------------------------------------------------------------------------
(* The terminal interface (main.go): the worker command, the progress      *)
(* channel, the command listening on it, and model.Update                  *)

NoListener == [at |-> "off", msg |-> ZeroStats]

NoInterface ==
    [on |-> FALSE, state |-> "off", stats |-> ZeroStats, worker |-> "none", quit |-> FALSE,
     kept |-> FALSE]

\* updateConfirm returns `m, tea.Batch(m.startExtract(), ...)`: startExtract
\* and startCompress store the channel and the cancel function in m through
\* a pointer, and the language leaves open whether the m of the return
\* statement is read before or after that call. The model the event loop
\* gets holds the two (TRUE) or is the copy made before the call (FALSE).
ModelKept == BOOLEAN

\* the interface once startCompress or startExtract has handed back its
\* batch: the worker command runs, the listener waits on the channel
Started(op, kept) ==
    [on |-> TRUE, state |-> IF op = "compress" THEN "compressing" ELSE "extracting",
     stats |-> ZeroStats, worker |-> "running", quit |-> FALSE, kept |-> kept]

\* the engine has returned to the worker command: the deferred close of the
\* channel runs and the done message is handed to the event loop
WorkerReturn ==
    /\ ui.on /\ ui.worker = "running" /\ pc = "done"
    /\ chan' = [chan EXCEPT !.closed = TRUE]
    /\ ui' = [ui EXCEPT !.worker = "returned"]
    /\ UNCHANGED <<disk, arcs, opts, pc, files, idx, stats, emitted, ctxDone, result,
                   touched, cancelAt, origin, before, held, lsn>>

\* listenProgressChan: the receive yields the oldest message, or nothing
\* once the channel is closed and empty; [lsn, chan]
received(ch) ==
    IF ch.buf # <<>>
    THEN [lsn |-> [at |-> "send", msg |-> Head(ch.buf)], chan |-> [ch EXCEPT !.buf = Tail(@)]]
    ELSE [lsn |-> [at |-> "end", msg |-> ZeroStats], chan |-> ch]

Listened(r) == lsn' = r.lsn /\ chan' = r.chan

Listen ==
    /\ lsn.at = "recv" /\ (chan.buf # <<>> \/ chan.closed)
    /\ Listened(received(chan))
    /\ UNCHANGED <<disk, arcs, opts, pc, files, idx, stats, emitted, ctxDone, result,
                   touched, cancelAt, origin, before, held, ui>>

Running(u) == u.state \in {"compressing", "extracting"}

\* model.Update, case progressChanMsg: the statistics of the message are
\* taken over
progressApplied(u, msg) == [u EXCEPT !.stats = msg]

\* model.Update, case progressChanMsg: the listener is started again while
\* the model holds the channel and the operation is shown as running
rearmed(u) ==
    IF u.kept /\ Running(u) THEN [at |-> "recv", msg |-> ZeroStats] ELSE NoListener

UpdateProgress ==
    /\ lsn.at = "send" /\ ~ui.quit
    /\ ui' = progressApplied(ui, lsn.msg)
    /\ lsn' = rearmed(ui)
    /\ UNCHANGED <<disk, arcs, opts, pc, files, idx, stats, emitted, ctxDone, result,
                   touched, cancelAt, origin, before, held, chan>>

\* model.Update, cases compressDoneMsg and extractDoneMsg
doneApplied(u, res) ==
    IF res.state = "err" THEN [u EXCEPT !.state = "error", !.worker = "delivered"]
    ELSE [u EXCEPT !.state = "done", !.stats = res.stats, !.worker = "delivered"]

UpdateDone ==
    /\ ui.worker = "returned" /\ ~ui.quit
    /\ ui' = doneApplied(ui, result)
    /\ UNCHANGED <<disk, arcs, opts, pc, files, idx, stats, emitted, ctxDone, result,
                   touched, cancelAt, origin, before, held, chan, lsn>>

\* model.Update on ctrl+c: the cancel function is called if the model holds
\* one, and the program quits; no message is handled after that
CtrlC ==
    /\ ~ui.quit
    /\ ctxDone' = (ctxDone \/ ui.kept)
    /\ cancelAt' = IF ctxDone \/ pc = "done" \/ ~ui.kept THEN cancelAt
                   ELSE [n |-> idx, pc |-> pc]
    /\ ui' = [ui EXCEPT !.quit = TRUE]
    /\ UNCHANGED <<disk, arcs, opts, pc, files, idx, stats, emitted, result, touched,
                   origin, before, held, chan, lsn>>

\* the operations started from the interface
UIScenarios ==
    {CompressScenario(t, P(<<nW, nS>>), fmt, <<>>, FALSE, FALSE) :
        t \in {TreePlain, TreeLogDir, TreeEmpty}, fmt \in {FmtZip, FmtTarGz}}
    \cup
    {CompressScenario(TreePlain, P(<<nW, nS>>), FmtZip, <<>>, FALSE, TRUE)}
    \cup
    {ExtractScenario(nS \o fmt, fmt, FixedEntries, have) :
        fmt \in {FmtZip, FmtTarGz}, have \in {"absent", "blocked"}}
    \cup
    {ExtractScenario(nS \o <<".", "t", "x", "t">>, FmtZip, FixedEntries, "absent")}

----------------------------------------------------------------------------
(* The wizard (main.go): the key handlers of model.Update, from the choice *)
(* of the mode to the start of the operation                               *)

\* the keys pressed: the named keys the handlers know, and one printable
\* character besides the space
Keys == {"esc", "up", "down", "enter", " ", "backspace", "p"}

\* msg.String() of the key has length 1
Printable(key) == key \in {" ", "p"}

\* longest password typed
MaxTyped == 1

\* how far down the list of formats the cursor is moved
MaxFormatCursor == 1

\* config.GetArchiveFormats: the extensions, in the order of the list
GetArchiveFormats == <<FmtZip, FmtTarGz, FmtTarBz2, FmtTarXz, FmtTarZst, FmtTarLz4>>

\* the exclusion categories offered, each selected at the start: a sample of
\* the configured list
ExcludeCategories == <<[Patterns |-> <<nNodeModules>>]>>

\* IsArchiveFile
IsArchiveFile(filename) == DetectArchiveFormat(filename) # <<>>

\* filepath.Ext: the suffix from the last dot of the last element on
Ext(p) ==
    IF \E i \in 1..Len(p) : p[i] = "." /\ \A j \in i..Len(p) : p[j] # Sep
    THEN SubSeq(p, CHOOSE i \in 1..Len(p) :
                       /\ p[i] = "."
                       /\ \A j \in (i + 1)..Len(p) : p[j] # Sep /\ p[j] # ".",
                Len(p))
    ELSE <<>>

\* strings.TrimSuffix
TrimSuffix(s, suffix) ==
    IF HasSuffix(s, suffix) THEN SubSeq(s, 1, Len(s) - Len(suffix)) ELSE s

\* the extensions updateSelectFile takes off an archive name, besides those
\* that begin with ".tar"
StrippedExtensions ==
    {FmtZip, <<".", "g", "z">>, <<".", "b", "z", "2">>, <<".", "x", "z">>,
     <<".", "z", "s", "t">>, <<".", "l", "z", "4">>, <<".", "t", "g", "z">>,
     <<".", "t", "b", "z", "2">>, <<".", "t", "x", "z">>, Fmt7z}

\* the extension is one of those the loop takes off
isStripped(ext) == HasPrefix(ext, FmtTar) \/ ext \in StrippedExtensions

\* updateSelectFile: the loop that takes the archive extensions off the
\* base name
RECURSIVE stripExtensions(_)
stripExtensions(baseName) ==
    IF Ext(baseName) = <<>> \/ ~isStripped(Ext(baseName)) THEN baseName
    ELSE stripExtensions(TrimSuffix(baseName, Ext(baseName)))

\* updateSelectFile: the directory an archive is extracted to
extractOutput(path) == Join(Dir(path), stripExtensions(Base(path)))

\* newModel
newModel(cwd) ==
    [on |-> FALSE, state |-> "selectMode", stats |-> ZeroStats, worker |-> "none",
     quit |-> FALSE, kept |-> FALSE, starts |-> 0,
     mode |-> "compress", modeCursor |-> 0, cwd |-> cwd, entries |-> <<>>, cursor |-> 0,
     formatCursor |-> 0, selected |-> [i \in 1..Len(ExcludeCategories) |-> TRUE],
     excludeCursor |-> 0,
     selectedPath |-> <<>>, selectedFormat |-> <<>>, outputPath |-> <<>>,
     password |-> <<>>, passwordInput |-> <<>>, usePassword |-> FALSE,
     passwordCursor |-> 0]

\* loadEntries: one entry per visible name
listEntry(d, cwd, name) ==
    [name |-> name, path |-> Join(cwd, name),
     isDir |-> d[Join(cwd, name)].kind = "dir",
     isArchive |-> d[Join(cwd, name)].kind # "dir" /\ IsArchiveFile(name)]

\* loadEntries: the entries in the order of the mode
sortedEntries(mode, es) ==
    IF mode = "extract"
    THEN SelectSeq(es, LAMBDA e : e.isArchive) \o SelectSeq(es, LAMBDA e : e.isDir)
         \o SelectSeq(es, LAMBDA e : ~e.isDir /\ ~e.isArchive)
    ELSE SelectSeq(es, LAMBDA e : e.isDir) \o SelectSeq(es, LAMBDA e : e.isArchive)
         \o SelectSeq(es, LAMBDA e : ~e.isDir /\ ~e.isArchive)

\* loadEntries: hidden names are passed over
listed(d, cwd, names) ==
    [i \in 1..Len(names) |-> listEntry(d, cwd, names[i])]

loadEntries(d, m) ==
    IF ~(IsDirAt(d, m.cwd) /\ d[m.cwd].ok) THEN [m EXCEPT !.entries = <<>>]
    ELSE [m EXCEPT !.entries =
                       sortedEntries(m.mode,
                           listed(d, m.cwd,
                                  SelectSeq(ReadDir(d, m.cwd),
                                            LAMBDA n : ~HasPrefix(n, Dot)))),
                   !.cursor = 0]

updateSelectMode(m, key, d) ==
    IF key = "esc" THEN [m EXCEPT !.quit = TRUE]
    ELSE IF key = "up" THEN [m EXCEPT !.modeCursor = IF @ > 0 THEN @ - 1 ELSE @]
    ELSE IF key = "down" THEN [m EXCEPT !.modeCursor = IF @ < 1 THEN @ + 1 ELSE @]
    ELSE IF key \in {"enter", " "}
    THEN loadEntries(d, [m EXCEPT !.mode = IF m.modeCursor = 0 THEN "compress"
                                           ELSE "extract",
                                  !.state = "selectFile"])
    ELSE m

\* updateSelectFile, the space key on an archive in extract mode
archiveSelected(m, path) ==
    IF DetectArchiveFormat(path) \in {FmtZip, Fmt7z}
    THEN [m EXCEPT !.selectedPath = path, !.outputPath = extractOutput(path),
                   !.state = "inputPassword", !.passwordCursor = 0,
                   !.passwordInput = <<>>]
    ELSE [m EXCEPT !.selectedPath = path, !.outputPath = extractOutput(path),
                   !.state = "confirm"]

\* updateSelectFile, the space key on an entry
entrySelected(m, entry) ==
    IF m.mode = "extract"
    THEN IF entry.isArchive THEN archiveSelected(m, entry.path)
         ELSE [m EXCEPT !.selectedPath = entry.path]
    ELSE [m EXCEPT !.selectedPath = entry.path, !.state = "selectFormat"]

updateSelectFile(m, key, d) ==
    IF key = "esc" THEN [m EXCEPT !.state = "selectMode"]
    ELSE IF key = "up" THEN [m EXCEPT !.cursor = IF @ > 0 THEN @ - 1 ELSE @]
    ELSE IF key = "down"
    THEN [m EXCEPT !.cursor = IF @ < Len(m.entries) - 1 THEN @ + 1 ELSE @]
    ELSE IF key = "enter"
    THEN IF Len(m.entries) > 0 /\ m.entries[m.cursor + 1].isDir
         THEN loadEntries(d, [m EXCEPT !.cwd = m.entries[m.cursor + 1].path])
         ELSE m
    ELSE IF key = "backspace"
    THEN IF Dir(m.cwd) # m.cwd THEN loadEntries(d, [m EXCEPT !.cwd = Dir(m.cwd)]) ELSE m
    ELSE IF key = " "
    THEN IF Len(m.entries) > 0 THEN entrySelected(m, m.entries[m.cursor + 1]) ELSE m
    ELSE m

\* updateSelectFormat; avail is the answer of Is7zAvailable
updateSelectFormat(m, key, avail) ==
    IF key = "esc" THEN [m EXCEPT !.state = "selectFile"]
    ELSE IF key = "up" THEN [m EXCEPT !.formatCursor = IF @ > 0 THEN @ - 1 ELSE @]
    ELSE IF key = "down"
    THEN [m EXCEPT !.formatCursor =
                       IF @ < Len(GetArchiveFormats) - 1 /\ @ < MaxFormatCursor
                       THEN @ + 1 ELSE @]
    ELSE IF key \in {"enter", " "}
    THEN IF GetArchiveFormats[m.formatCursor + 1] = Fmt7z /\ ~avail
         THEN [m EXCEPT !.selectedFormat = GetArchiveFormats[m.formatCursor + 1],
                        !.state = "error"]
         ELSE [m EXCEPT !.selectedFormat = GetArchiveFormats[m.formatCursor + 1],
                        !.outputPath = m.selectedPath \o GetArchiveFormats[m.formatCursor + 1],
                        !.state = "selectExcludes"]
    ELSE m

updateSelectExcludes(m, key) ==
    IF key = "esc" THEN [m EXCEPT !.state = "selectFormat"]
    ELSE IF key = "up" THEN [m EXCEPT !.excludeCursor = IF @ > 0 THEN @ - 1 ELSE @]
    ELSE IF key = "down"
    THEN [m EXCEPT !.excludeCursor = IF @ < Len(ExcludeCategories) - 1 THEN @ + 1 ELSE @]
    ELSE IF key = " "
    THEN [m EXCEPT !.selected[m.excludeCursor + 1] = ~@]
    ELSE IF key = "enter"
    THEN IF m.selectedFormat = FmtZip
         THEN [m EXCEPT !.state = "inputPassword", !.passwordCursor = 0]
         ELSE [m EXCEPT !.state = "confirm"]
    ELSE m

\* the password field with its last character taken off
erased(input) == IF Len(input) > 0 THEN SubSeq(input, 1, Len(input) - 1) ELSE input

\* the password field with one more character, up to the longest password
typed(input, key) == IF Len(input) < MaxTyped THEN Append(input, key) ELSE input

\* updateInputPassword in extract mode
passwordForExtract(m, key) ==
    IF key = "esc"
    THEN [m EXCEPT !.state = "selectFile", !.passwordInput = <<>>, !.password = <<>>]
    ELSE IF key = "enter" THEN [m EXCEPT !.password = m.passwordInput, !.state = "confirm"]
    ELSE IF key = "backspace" THEN [m EXCEPT !.passwordInput = erased(@)]
    ELSE IF Printable(key) THEN [m EXCEPT !.passwordInput = typed(@, key)]
    ELSE m

\* updateInputPassword in compress mode
passwordForCompress(m, key) ==
    IF key = "esc"
    THEN [m EXCEPT !.state = "selectExcludes", !.passwordInput = <<>>,
                   !.usePassword = FALSE]
    ELSE IF key = "up" THEN [m EXCEPT !.passwordCursor = IF @ > 0 THEN @ - 1 ELSE @]
    ELSE IF key = "down" THEN [m EXCEPT !.passwordCursor = IF @ < 1 THEN @ + 1 ELSE @]
    ELSE IF key = "enter"
    THEN IF m.passwordCursor = 0
         THEN [m EXCEPT !.usePassword = FALSE, !.password = <<>>, !.state = "confirm"]
         ELSE IF m.passwordInput = <<>> THEN m
         ELSE [m EXCEPT !.usePassword = TRUE, !.password = m.passwordInput,
                        !.state = "confirm"]
    ELSE IF key = "backspace"
    THEN IF m.passwordCursor = 1 THEN [m EXCEPT !.passwordInput = erased(@)] ELSE m
    ELSE IF Printable(key) /\ m.passwordCursor = 1
    THEN [m EXCEPT !.passwordInput = typed(@, key)]
    ELSE m

updateInputPassword(m, key) ==
    IF m.mode = "extract" THEN passwordForExtract(m, key) ELSE passwordForCompress(m, key)

\* updateConfirm: the way back, and the start of the operation
updateConfirm(m, key) ==
    IF key = "esc"
    THEN IF m.mode = "extract"
         THEN IF DetectArchiveFormat(m.selectedPath) \in {FmtZip, Fmt7z}
              THEN [m EXCEPT !.state = "inputPassword"]
              ELSE [m EXCEPT !.state = "selectFile"]
         ELSE IF m.selectedFormat = FmtZip THEN [m EXCEPT !.state = "inputPassword"]
         ELSE [m EXCEPT !.state = "selectExcludes"]
    ELSE IF key = "enter"
    THEN [m EXCEPT !.state = IF m.mode = "extract" THEN "extracting" ELSE "compressing"]
    ELSE m

\* a faulty variant of Update: a finished operation leads back to the choice
\* of the mode
UpdateAgain(m, key, d, avail) ==
    IF m.state = "selectMode" THEN updateSelectMode(m, key, d)
    ELSE IF m.state = "selectFile" THEN updateSelectFile(m, key, d)
    ELSE IF m.state = "selectFormat" THEN updateSelectFormat(m, key, avail)
    ELSE IF m.state = "selectExcludes" THEN updateSelectExcludes(m, key)
    ELSE IF m.state = "inputPassword" THEN updateInputPassword(m, key)
    ELSE IF m.state = "confirm" THEN updateConfirm(m, key)
    ELSE IF m.state \in {"done", "error"} /\ key \in {"esc", "enter"}
    THEN [m EXCEPT !.state = "selectMode", !.on = FALSE]
    ELSE m

\* model.Update, case tea.KeyMsg, for a key that is not ctrl+c: the handler
\* of the state; a running operation has none, and a finished one knows the
\* keys that quit
Update(m, key, d, avail) ==
    IF m.state = "selectMode" THEN updateSelectMode(m, key, d)
    ELSE IF m.state = "selectFile" THEN updateSelectFile(m, key, d)
    ELSE IF m.state = "selectFormat" THEN updateSelectFormat(m, key, avail)
    ELSE IF m.state = "selectExcludes" THEN updateSelectExcludes(m, key)
    ELSE IF m.state = "inputPassword" THEN updateInputPassword(m, key)
    ELSE IF m.state = "confirm" THEN updateConfirm(m, key)
    ELSE IF m.state \in {"done", "error"} /\ key \in {"esc", "enter"}
    THEN [m EXCEPT !.quit = TRUE]
    ELSE m

\* startCompress: the patterns of the selected categories
RECURSIVE selectedPatterns(_, _)
selectedPatterns(cats, sel) ==
    IF cats = <<>> THEN <<>>
    ELSE (IF Head(sel) THEN Head(cats).Patterns ELSE <<>>)
         \o selectedPatterns(Tail(cats), Tail(sel))

\* the options startCompress and startExtract hand to the engine
startOptions(m) ==
    IF m.mode = "extract"
    THEN [ExtractOpts(m.selectedPath, m.outputPath) EXCEPT !.Password = m.password]
    ELSE [CompressOpts(m.selectedPath, m.outputPath, m.selectedFormat,
                       selectedPatterns(ExcludeCategories, m.selected))
             EXCEPT !.Password = m.password]

\* the model the event loop gets from updateConfirm
started(m, kept) ==
    [m EXCEPT !.on = TRUE, !.worker = "running", !.kept = kept, !.stats = ZeroStats,
              !.starts = @ + 1]

\* updateConfirm has started an operation: startCompress or startExtract has
\* made the channel and the context and handed back the worker command and
\* the listener
StartOperation(m) ==
    /\ opts' = startOptions(m)
    /\ \E kept \in ModelKept : ui' = started(m, kept)
    /\ pc' = "start"
    /\ files' = <<>>
    /\ idx' = 0
    /\ stats' = ZeroStats
    /\ emitted' = <<>>
    /\ ctxDone' = FALSE
    /\ result' = NoResult
    /\ touched' = {}
    /\ cancelAt' = NoCancel
    /\ origin' = NoOrigin
    /\ before' = [disk |-> disk, arcs |-> arcs]
    /\ held' = ZeroStats
    /\ chan' = NoChan
    /\ lsn' = [at |-> "recv", msg |-> ZeroStats]
    /\ UNCHANGED <<disk, arcs>>

\* the model after the key, and the operation if the key has started one
Pressed(m) ==
    IF Running(m) /\ ~Running(ui) THEN StartOperation(m)
    ELSE /\ ui' = m
         /\ UNCHANGED <<disk, arcs, opts, pc, files, idx, stats, emitted, ctxDone, result,
                        touched, cancelAt, origin, before, held, chan, lsn>>

\* a key other than ctrl+c is pressed
KeyPress ==
    /\ ~ui.quit
    /\ \E key \in Keys, avail \in BOOLEAN : Pressed(Update(ui, key, disk, avail))

\* no request has been made yet
NoRequest ==
    [op |-> "none", Source |-> <<>>, Output |-> <<>>, Format |-> <<>>, Excludes |-> <<>>,
     Password |-> <<>>]

pKey == <<"p">>

\* the directory the program is started in: the root, holding a file a and
\* one archive that is what its name says, stored in the clear or under a key
KeyScenario(name, key) ==
    [disk |-> MkDisk({<<P(<<>>), DirNode>>, <<P(<<nA>>), FileNode(<<1>>)>>,
                      <<P(<<name>>), FileNode(<<>>)>>}),
     arcs |-> [q \in {P(<<name>>)} |->
                  [fmt |-> DetectArchiveFormat(name), entries |-> <<RegEntry(nB, <<2>>)>>,
                   closed |-> TRUE, key |-> key]],
     cwd |-> P(<<>>)]

\* archive names: a long and a short suffix, and one in upper case
ArchiveNames ==
    {nS \o FmtTarGz, nS \o <<".", "t", "z", "s", "t">>, nS \o <<".", "Z", "I", "P">>}

KeyScenarios ==
    {KeyScenario(name, <<>>) : name \in ArchiveNames}
    \cup {KeyScenario(nS \o FmtZip, pKey)}

----------------------------------------------------------------------------
(* Specification                                                           *)

Init ==
    \E sc \in Scenarios :
        /\ disk = sc.disk
        /\ arcs = sc.arcs
        /\ opts = sc.opts
        /\ pc = "start"
        /\ files = <<>>
        /\ idx = 0
        /\ stats = ZeroStats
        /\ emitted = <<>>
        /\ ctxDone = FALSE
        /\ result = NoResult
        /\ touched = {}
        /\ cancelAt = NoCancel
        /\ origin = NoOrigin
        /\ before = [disk |-> sc.disk, arcs |-> sc.arcs]
        /\ held = ZeroStats
        /\ chan = NoChan
        /\ lsn = NoListener
        /\ ui = NoInterface

Next ==
    \/ CompressStart
    \/ CompressCheck
    \/ CompressEntry
    \/ CompressReturn
    \/ ExtractStart
    \/ ExtractCheck
    \/ ExtractEntry
    \/ ExtractReturn
    \/ Cancel
    \/ CallExtract

Spec == Init /\ [][Next]_vars

\* an operation started from the interface
UIInit ==
    \E sc \in UIScenarios :
        /\ disk = sc.disk
        /\ arcs = sc.arcs
        /\ opts = sc.opts
        /\ pc = "start"
        /\ files = <<>>
        /\ idx = 0
        /\ stats = ZeroStats
        /\ emitted = <<>>
        /\ ctxDone = FALSE
        /\ result = NoResult
        /\ touched = {}
        /\ cancelAt = NoCancel
        /\ origin = NoOrigin
        /\ before = [disk |-> sc.disk, arcs |-> sc.arcs]
        /\ held = ZeroStats
        /\ chan = NoChan
        /\ lsn = [at |-> "recv", msg |-> ZeroStats]
        /\ \E kept \in ModelKept : ui = Started(sc.opts.op, kept)

\* the steps of the worker command
Worker ==
    \/ CompressStart
    \/ CompressCheck
    \/ CompressEntry
    \/ CompressReturn
    \/ ExtractStart
    \/ ExtractCheck
    \/ ExtractEntry
    \/ ExtractReturn
    \/ WorkerReturn

UINext ==
    \/ Worker
    \/ Listen
    \/ UpdateProgress
    \/ UpdateDone
    \/ CtrlC

\* once the engine has returned the worker command returns, and the event
\* loop handles the message a command has returned; nothing is assumed about
\* the listener or about how soon a progress message is handled
UISpec == UIInit /\ [][UINext]_vars /\ WF_vars(WorkerReturn) /\ WF_vars(UpdateDone)

\* the program from its start: the wizard, then the operation
KeyInit ==
    \E sc \in KeyScenarios :
        /\ disk = sc.disk
        /\ arcs = sc.arcs
        /\ opts = NoRequest
        /\ pc = "idle"
        /\ files = <<>>
        /\ idx = 0
        /\ stats = ZeroStats
        /\ emitted = <<>>
        /\ ctxDone = FALSE
        /\ result = NoResult
        /\ touched = {}
        /\ cancelAt = NoCancel
        /\ origin = NoOrigin
        /\ before = [disk |-> sc.disk, arcs |-> sc.arcs]
        /\ held = ZeroStats
        /\ chan = NoChan
        /\ lsn = NoListener
        /\ ui = newModel(sc.cwd)

KeyNext ==
    \/ KeyPress
    \/ Worker
    \/ Listen
    \/ UpdateProgress
    \/ UpdateDone
    \/ CtrlC

KeySpec == KeyInit /\ [][KeyNext]_vars

----------------------------------------------------------------------------
(* Properties                                                              *)

IsCompress == opts.op = "compress"
IsExtract == opts.op = "extract"

\* the real path of the output
OutReal == RealPath(disk, opts.Output)

\* the target an entry of that name is extracted to
Target(name) == Join(opts.Output, name)

\* the name leads out of the output root, by whole path elements
Climbs(name) == ~Within(Clean(opts.Output), Target(name))

\* the ProcessedFiles values handed to OnStats
Snapshots == {emitted[i].ProcessedFiles : i \in 1..Len(emitted)}

\* C1, as the specification states it: for every archive and every stored
\* name, every path Extract creates or writes is the cleaned output root or a
\* descendant of it by whole path elements; a sibling whose name starts with
\* the name of the root is outside.
C1_TouchedWithinRoot ==
    IsExtract => \A q \in touched : Within(Clean(opts.Output), q)

\* C1: Extract has returned success after writing a file into a sibling of
\* the output root
C1_SiblingWritten ==
    /\ IsExtract /\ pc = "done" /\ result.state = "ok"
    /\ \E q \in touched : ~Within(Clean(opts.Output), q) /\ HasPrefix(q, Clean(opts.Output))

\* C2, as the specification states it: an entry whose name climbs out of the
\* output root is a hard stop. Extract never gets past it, creates nothing at
\* its target, and when the call ends at that entry it ends with
\* PathTraversal.
C2_TraversalIsHardStop ==
    IsExtract =>
        \A i \in 1..Len(files) :
            Climbs(files[i].name) =>
                /\ idx < i
                /\ Target(files[i].name) \notin touched
                /\ (pc = "done" /\ idx = i - 1 /\ Len(emitted) = i)
                      => result.err = "PathTraversal"

\* C2: Extract has returned its statistics although an entry that climbs out
\* of the output root was among those it processed
C2_ClimbingEntryExtracted ==
    /\ IsExtract /\ pc = "done" /\ result.state = "ok"
    /\ \E i \in 1..idx : Climbs(files[i].name) /\ Target(files[i].name) \in touched

\* the source is a tree of directories and readable regular files, with at
\* least one file
PlainTree ==
    /\ StatOk(before.disk, opts.Source)
    /\ \A q \in DOMAIN before.disk :
          Within(opts.Source, q) => before.disk[q].kind \in {"dir", "file"} /\ before.disk[q].ok
    /\ \E q \in DOMAIN before.disk : Within(opts.Source, q) /\ before.disk[q].kind = "file"

\* C3: round trip, for each of the six formats. Compress without exclusion
\* patterns succeeds on every tree of directories and readable files, unless
\* it is cancelled. When the caller extracts the archive a Compress without
\* patterns has produced into a new directory, Extract succeeds, unless it is
\* cancelled, and the files below the output directory are then exactly the
\* files of the source: the same paths relative to the parent of the source,
\* each with the same content.
C3_RoundTrip ==
    /\ (/\ IsCompress /\ pc = "done" /\ cancelAt.n = -1
        /\ PlainTree /\ opts.Excludes = <<>>
        /\ opts.Format \in CompressFormats
        /\ CanCreateIn(before.disk, Dir(opts.Output))) => result.state = "ok"
    /\ (IsExtract /\ origin.on /\ origin.plain /\ pc = "done") =>
        /\ cancelAt.n = -1 => result.state = "ok"
        /\ result.state = "ok" => ExtractedFiles(disk, opts.Output) = origin.files

\* C3: a round trip of a tree with files at two depths has ended
C3_RoundTripDone ==
    /\ IsExtract /\ origin.on /\ origin.plain /\ pc = "done" /\ result.state = "ok"
    /\ Cardinality(origin.files) >= 3
    /\ \E f \in origin.files : Len(Elems(f[1])) >= 3
    /\ DetectArchiveFormat(opts.Source) = FmtTarZst

\* the source of the call is a directory
DirSource ==
    StatOk(before.disk, opts.Source) /\ StatNode(before.disk, opts.Source).kind = "dir"

\* the nodes of the source tree
TreeNodes == {q \in DOMAIN before.disk : Within(opts.Source, q)}

\* the exclusion test the collector makes on a node
Excluded(q) ==
    \/ shouldExclude(walkRelPath(opts.Source, q), opts.Excludes)
    \/ shouldExclude(q, opts.Excludes)

\* the nodes that are not directories and have no excluded node on the way
\* from the source to themselves
Kept ==
    {q \in TreeNodes : /\ before.disk[q].kind # "dir"
                       /\ \A a \in TreeNodes : Within(a, q) => ~Excluded(a)}

\* the excluded nodes that do not lie inside an excluded directory
Counted ==
    {a \in TreeNodes : /\ Excluded(a)
                       /\ \A b \in TreeNodes : (b # a /\ Within(b, a)) => ~Excluded(b)}

\* Compress has got a file list from the collector and has gone on with it
HasCollected == pc \in {"loop", "entry"} \/ (pc = "done" /\ result.err \in {"", "Cancelled", "IO"})

\* C4: for a directory source whose walk does not fail, the collected list
\* holds exactly the nodes that are not directories and neither match
\* themselves nor lie under a directory that matches, each once; the count of
\* excluded nodes is the number of matching files and matching directories
\* outside any matching directory; Compress ends with EmptyInput exactly when
\* nothing is kept. With the patterns "*.log", "node_modules" and the tree
\* a.log, node_modules/x.js, keep.txt the list is keep.txt and the count is 2.
C4_Collected ==
    (IsCompress /\ pc # "start" /\ DirSource /\ result.err # "Collect") =>
        /\ (result.err = "EmptyInput") <=> (Kept = {})
        /\ HasCollected =>
              /\ {files[i] : i \in 1..Len(files)} = Kept
              /\ Len(files) = Cardinality(Kept)
              /\ stats.TotalFiles = Cardinality(Kept)
              /\ stats.ExcludedFiles = Cardinality(Counted)
        /\ (/\ before.disk = MkDisk(BaseNodes \cup TreeExample)
            /\ opts.Excludes = <<pStarLog, nNodeModules>>) =>
              /\ HasCollected
              /\ files = <<P(<<nW, nS, nKeep>>)>>
              /\ stats.ExcludedFiles = 2

\* C4: Compress has ended on the tree a.log, node_modules/x.js, keep.txt
\* with the patterns "*.log", "node_modules"
C4_ExampleCollected ==
    /\ IsCompress /\ pc = "done" /\ result.state = "ok"
    /\ before.disk = MkDisk(BaseNodes \cup TreeExample)
    /\ opts.Excludes = <<pStarLog, nNodeModules>>
    /\ Kept = {P(<<nW, nS, nKeep>>)}
    /\ Cardinality(Counted) = 2
    /\ result.stats.ExcludedFiles = 2

\* C5: the statistics a successful Compress returns have ProcessedFiles equal
\* to TotalFiles, and CompressedSize equal to the size of the output file on
\* disk, all writers and the file closed.
C5_FinalStats ==
    (IsCompress /\ pc = "done" /\ result.state = "ok") =>
        /\ result.stats.ProcessedFiles = result.stats.TotalFiles
        /\ result.stats.TotalFiles = Len(files)
        /\ arcs[OutReal].closed
        /\ result.stats.CompressedSize = FileSize(disk, arcs, OutReal)

\* C5: a Compress of several files has returned its statistics
C5_CompressSucceeded ==
    /\ IsCompress /\ pc = "done" /\ result.state = "ok"
    /\ result.stats.TotalFiles >= 2
    /\ result.stats.CompressedSize > result.stats.TotalFiles

\* the source of the Extract call is in a TAR-based format
TarSource == IsExtract /\ DetectArchiveFormat(opts.Source) # FmtZip

\* entries that had been started when the context was cancelled
CancelReach == cancelAt.n + (IF cancelAt.pc = "entry" THEN 1 ELSE 0)

\* C6, as the specification states it: when the context is cancelled in the
\* loop after N of M entries have been processed, N < M, and no entry fails
\* on its own, the call returns Cancelled and no snapshot has ProcessedFiles
\* greater than N + 1.
C6_CancelYieldsCancelled ==
    (/\ pc = "done"
     /\ cancelAt.pc \in {"loop", "entry"}
     /\ cancelAt.n < Len(files)
     /\ result.err \notin {"IO", "PathTraversal"}) =>
        /\ result.err = "Cancelled"
        /\ \A k \in Snapshots : k <= cancelAt.n + 1

\* C6, amended: when the context is cancelled after N entries have been
\* processed, no snapshot has ProcessedFiles greater than N + 1 and no entry
\* beyond the one in progress is started. The call returns Cancelled at the
\* next check at the top of the loop. It returns another error only when the
\* step in progress at the cancellation fails. It returns success only from
\* Compress and from ZIP extraction, and only when every entry had been
\* started before the cancellation, so that no check was left.
C6_CancelAtNextCheck ==
    (pc = "done" /\ cancelAt.n >= 0) =>
        /\ \A k \in Snapshots : k <= cancelAt.n + 1
        /\ idx <= cancelAt.n + 1
        /\ result.state = "ok" => (CancelReach = Len(files) /\ ~TarSource)
        /\ (result.state = "err" /\ result.err # "Cancelled")
              => (cancelAt.pc # "loop" /\ idx = cancelAt.n)
        /\ (cancelAt.pc = "loop" /\ (cancelAt.n < Len(files) \/ TarSource))
              => result.err = "Cancelled"
        /\ (cancelAt.pc = "entry" /\ idx = cancelAt.n + 1
              /\ (idx < Len(files) \/ TarSource))
              => result.err = "Cancelled"

\* C6: the context was cancelled while an entry after the first was in
\* progress, the entry was finished and the call returned Cancelled
C6_CancelledInLoop ==
    /\ pc = "done" /\ result.err = "Cancelled"
    /\ cancelAt.pc = "entry" /\ cancelAt.n >= 1
    /\ idx = cancelAt.n + 1
    /\ cancelAt.n + 1 \in Snapshots

\* C7: when a call ends with Cancelled nothing is rolled back. No path that
\* was on disk when the call began is gone; after Compress the output file
\* is on disk and holds the entries written before the cancellation; after
\* Extract every path it created or wrote is still on disk.
C7_NoRollback ==
    (pc = "done" /\ result.err = "Cancelled") =>
        /\ DOMAIN before.disk \subseteq DOMAIN disk
        /\ IsCompress => /\ OutReal \in DOMAIN disk
                         /\ OutReal \in DOMAIN arcs
                         /\ Len(arcs[OutReal].entries) = idx
        /\ IsExtract => \A q \in touched : StatOk(disk, q)

\* C7: a Compress was cancelled after it had written an entry and before it
\* had written the last
C7_CancelledPartway ==
    /\ IsCompress /\ pc = "done" /\ result.err = "Cancelled"
    /\ idx >= 1 /\ idx < Len(files)
    /\ OutReal \notin DOMAIN before.disk

\* the source of the call is a single file
SingleFileSource ==
    StatOk(before.disk, opts.Source) /\ StatNode(before.disk, opts.Source).kind = "file"

\* C8: when the source is a single regular file the patterns are not
\* consulted, whatever they are: Compress does not end with EmptyInput, the
\* collected list is that file alone with no node counted as excluded, and
\* the archive a successful Compress leaves has exactly one entry, the file
\* under its base name.
C8_SingleFile ==
    (IsCompress /\ pc # "start" /\ SingleFileSource) =>
        /\ result.err \notin {"NotFound", "Collect", "EmptyInput"}
        /\ HasCollected =>
              /\ files = <<opts.Source>>
              /\ stats.TotalFiles = 1
              /\ stats.ExcludedFiles = 0
        /\ result.state = "ok" =>
              arcs[OutReal].entries =
                  <<RegEntry(Base(opts.Source), StatNode(before.disk, opts.Source).data)>>

\* C8: a single file whose name matches a pattern of the call has been
\* compressed
C8_MatchingFileCompressed ==
    /\ IsCompress /\ pc = "done" /\ result.state = "ok"
    /\ SingleFileSource
    /\ shouldExclude(opts.Source, opts.Excludes)

\* Compress has a reason to fail before it chooses a writer: the source is
\* missing, the collection fails or yields no file, or the format is not one
\* of the six
CompressRejected ==
    \/ ~StatOk(before.disk, opts.Source)
    \/ collectFiles(before.disk, opts.Source, opts.Excludes).err # ""
    \/ Len(collectFiles(before.disk, opts.Source, opts.Excludes).files) = 0
    \/ opts.Format \notin CompressFormats

\* C9: a Compress that has a reason to fail before a writer is chosen returns
\* an error and no statistics, hands out no snapshot, and leaves the file
\* system as it was: the output path is neither created nor truncated.
C9_RejectedUntouched ==
    (IsCompress /\ pc = "done" /\ CompressRejected) =>
        /\ result.state = "err"
        /\ result.err \in {"NotFound", "Collect", "EmptyInput", "UnsupportedFormat"}
        /\ result.stats = ZeroStats
        /\ emitted = <<>>
        /\ disk = before.disk
        /\ arcs = before.arcs

\* C9: Compress has refused a format while a file stood at the output path
C9_RefusedWithOutputPresent ==
    /\ IsCompress /\ pc = "done" /\ result.err = "UnsupportedFormat"
    /\ opts.Output \in DOMAIN before.disk
    /\ NodeSize(disk[opts.Output]) > 0

\* C10: Extract on a source that exists and whose name has no recognized
\* suffix fails with UnsupportedFormat, and Extract on a source that does not
\* exist fails as well; in both cases the file system is as it was, so the
\* output directory has not been created, and no snapshot was handed out.
C10_RejectedBeforeMkdir ==
    (/\ IsExtract /\ pc = "done"
     /\ (~StatOk(before.disk, opts.Source) \/ DetectArchiveFormat(opts.Source) = <<>>)) =>
        /\ result.state = "err"
        /\ result.err = IF StatOk(before.disk, opts.Source)
                        THEN "UnsupportedFormat" ELSE "NotFound"
        /\ disk = before.disk
        /\ touched = {}
        /\ emitted = <<>>

\* C10: Extract has refused an existing source for its name while the output
\* directory did not exist
C10_RefusedUnknownSuffix ==
    /\ IsExtract /\ pc = "done" /\ result.err = "UnsupportedFormat"
    /\ StatOk(before.disk, opts.Source)
    /\ ~StatOk(before.disk, opts.Output)
    /\ ~StatOk(disk, opts.Output)

\* the suffixes the format detection is said to know, each with its tag
SuffixTable ==
    {<<FmtZip, FmtZip>>,
     <<FmtTarGz, FmtTarGz>>, <<<<".", "t", "g", "z">>, FmtTarGz>>,
     <<FmtTarBz2, FmtTarBz2>>, <<<<".", "t", "b", "z", "2">>, FmtTarBz2>>,
     <<FmtTarXz, FmtTarXz>>, <<<<".", "t", "x", "z">>, FmtTarXz>>,
     <<FmtTarZst, FmtTarZst>>, <<<<".", "t", "z", "s", "t">>, FmtTarZst>>,
     <<FmtTarLz4, FmtTarLz4>>,
     <<FmtTar, FmtTar>>,
     <<Fmt7z, Fmt7z>>}

\* the rows of the table whose suffix ends the name, letter case aside
SuffixHits(name) == {row \in SuffixTable : HasSuffix(ToLower(name), row[1])}

\* Extract has looked at the name of a source that exists
Detected == IsExtract /\ pc # "start" /\ StatOk(before.disk, opts.Source)

\* C11: the format Extract detects depends on the suffix of the name alone,
\* letter case aside: .zip is zip, .tar.gz and .tgz are tar.gz, .tar.bz2 and
\* .tbz2 are tar.bz2, .tar.xz and .txz are tar.xz, .tar.zst and .tzst are
\* tar.zst, .tar.lz4 is tar.lz4, .tar is tar, .7z is 7z; every other name has
\* the empty tag and is refused as unsupported.
C11_SuffixDecides ==
    Detected =>
        /\ \A row \in SuffixHits(opts.Source) : DetectArchiveFormat(opts.Source) = row[2]
        /\ SuffixHits(opts.Source) = {} => DetectArchiveFormat(opts.Source) = <<>>
        /\ SuffixHits(opts.Source) = {} <=> (pc = "done" /\ result.err = "UnsupportedFormat")

\* C11: Extract has refused a source whose name ends in .7z as unsupported
C11_SevenZipRefused ==
    /\ Detected /\ pc = "done"
    /\ HasSuffix(ToLower(opts.Source), Fmt7z)
    /\ result.err = "UnsupportedFormat"

\* the part of C11 outside .7z: C11_SuffixDecides on the names that do not
\* end in .7z
C11_SuffixDecidesBut7z ==
    (Detected /\ ~HasSuffix(ToLower(opts.Source), Fmt7z)) =>
        /\ \A row \in SuffixHits(opts.Source) : DetectArchiveFormat(opts.Source) = row[2]
        /\ SuffixHits(opts.Source) = {} <=> (pc = "done" /\ result.err = "UnsupportedFormat")

\* the real path of the archive handed to Extract
SrcReal == RealPath(before.disk, opts.Source)

\* Extract was handed an archive that the writer of a format Compress accepts
\* produced and that is named with the extension of that format
NamedAsWritten ==
    /\ IsExtract /\ pc # "start"
    /\ SrcReal \in DOMAIN before.arcs
    /\ before.arcs[SrcReal].fmt \in CompressFormats
    /\ before.arcs[SrcReal].closed
    /\ HasSuffix(opts.Source, before.arcs[SrcReal].fmt)

\* C12: Compress writes with the adapter of the requested format, and the
\* name of its output, source name plus extension, is detected as that
\* format; Extract handed an archive written in format F and named with the
\* extension F detects F whatever the base name is, is never refused as
\* unsupported, and its reader yields the entries the writer stored.
C12_SameAdapter ==
    /\ (IsCompress /\ pc = "done" /\ result.state = "ok") =>
          /\ arcs[OutReal].fmt = opts.Format
          /\ DetectArchiveFormat(opts.Source \o opts.Format) = opts.Format
    /\ NamedAsWritten =>
          /\ DetectArchiveFormat(opts.Source) = before.arcs[SrcReal].fmt
          /\ result.err # "UnsupportedFormat"
          /\ result.err # "Mkdir" => files = before.arcs[SrcReal].entries

\* C12: Extract has read back, to the end, a .tar.lz4 archive that Compress
\* produced
C12_ProducedArchiveRead ==
    /\ NamedAsWritten /\ origin.on
    /\ before.arcs[SrcReal].fmt = FmtTarLz4
    /\ pc = "done" /\ result.state = "ok"
    /\ idx = Len(before.arcs[SrcReal].entries) /\ idx > 0

\* C13: a snapshot is handed out only after its entry has been dealt with in
\* full (written to the archive by Compress, read and put on disk by
\* Extract), so no snapshot counts more entries than have been completed; and
\* the snapshots come in increasing order.
C13_SnapshotAfterEntry ==
    /\ \A i \in 1..Len(emitted) : emitted[i].ProcessedFiles <= idx
    /\ \A i, j \in 1..Len(emitted) :
          i < j => emitted[i].ProcessedFiles < emitted[j].ProcessedFiles

\* C13: Compress has handed out the snapshot of the first file while the
\* archive is still empty
C13_SnapshotBeforeWrite ==
    /\ IsCompress /\ pc = "entry" /\ idx = 0
    /\ Len(emitted) = 1 /\ emitted[1].ProcessedFiles = 1
    /\ arcs[OutReal].entries = <<>>

\* the part of C13 about order: the snapshots count up one by one
C13_SnapshotsIncrease ==
    \A i \in 1..Len(emitted) : emitted[i].ProcessedFiles = i

\* the names of the entries of an archive, in stored order
EntryNames(es) == [i \in 1..Len(es) |-> es[i].name]

\* the collected file paths as names relative to the parent of the source
CollectedNames == [i \in 1..Len(files) |-> Rel(Dir(opts.Source), files[i]).path]

\* C14: Compress calls the statistics callback once per collected file, in
\* the order of the collector and one at a time: the k-th call carries
\* ProcessedFiles = k and the k-th file's name relative to the parent of the
\* source, one call has been made for every file the loop has begun, a
\* successful Compress has made exactly TotalFiles calls, and the entries of
\* its archive are named like the collected files, in the same order.
C14_OncePerEntry ==
    (IsCompress /\ pc # "start") =>
        /\ \A k \in 1..Len(emitted) :
              /\ emitted[k].ProcessedFiles = k
              /\ emitted[k].CurrentFile = CollectedNames[k]
        /\ Len(emitted) = idx + (IF pc = "entry" \/ (result.err = "IO" /\ files # <<>>)
                                 THEN 1 ELSE 0)
        /\ result.state = "ok" =>
              /\ Len(emitted) = result.stats.TotalFiles
              /\ Len(emitted) = Len(files)
              /\ EntryNames(arcs[OutReal].entries) = CollectedNames

\* C14: Compress has succeeded on a tree of several files in nested
\* directories
C14_SeveralFilesCompressed ==
    /\ IsCompress /\ pc = "done" /\ result.state = "ok"
    /\ Len(emitted) >= 3
    /\ \E k \in 1..Len(files) : Len(Elems(CollectedNames[k])) >= 3

\* the fields of the statistics that only the loop head writes
Counts(st) == [st EXCEPT !.ExtractedSize = 0, !.CompressedSize = 0]

\* C15: the callback is handed a copy: whatever it leaves in its snapshot,
\* the statistics of the pipeline stay what the pipeline computed (they agree
\* with the snapshot as it was handed out), the later snapshots carry the
\* same totals and count on from the earlier ones, and the final statistics
\* count every entry and carry the totals of the first snapshot.
C15_CallbackGetsCopy ==
    Len(emitted) > 0 =>
        /\ pc \in {"entry", "loop"} => Counts(stats) = Counts(emitted[Len(emitted)])
        /\ \A k \in 1..Len(emitted) :
              /\ emitted[k].ProcessedFiles = k
              /\ emitted[k].TotalSize = emitted[1].TotalSize
              /\ emitted[k].TotalFiles = emitted[1].TotalFiles
              /\ emitted[k].ExcludedFiles = emitted[1].ExcludedFiles
        /\ result.state = "ok" =>
              /\ result.stats.ProcessedFiles = Len(emitted)
              /\ result.stats.TotalSize = emitted[1].TotalSize
              /\ result.stats.ExcludedFiles = emitted[1].ExcludedFiles
              /\ result.stats.CurrentFile = emitted[Len(emitted)].CurrentFile

\* C15: an operation has succeeded after a callback that overwrote the
\* snapshots it was handed
C15_OverwrittenCopy ==
    /\ pc = "done" /\ result.state = "ok"
    /\ Len(emitted) >= 2
    /\ emitted[1].TotalSize > 0
    /\ held = wiped(emitted[Len(emitted)])
    /\ held # emitted[Len(emitted)]

\* the archive handed to Extract is read by the ZIP reader
ZipSource == DetectArchiveFormat(opts.Source) = FmtZip

\* C16: while Extract reads a ZIP archive every snapshot carries the number
\* of entries of the archive as TotalFiles; while it reads a TAR-based
\* archive every snapshot carries TotalFiles = 0 and ProcessedFiles counts up
\* from 1; when the TAR reader ends in success the final TotalFiles is the
\* number of entries it processed.
C16_ExtractTotals ==
    (IsExtract /\ pc # "start") =>
        /\ \A k \in 1..Len(emitted) :
              /\ emitted[k].ProcessedFiles = k
              /\ emitted[k].TotalFiles = IF ZipSource THEN Len(before.arcs[SrcReal].entries)
                                         ELSE 0
        /\ (result.state = "ok" /\ ~ZipSource) =>
              /\ result.stats.TotalFiles = idx
              /\ result.stats.TotalFiles = Len(emitted)
              /\ result.stats.ProcessedFiles = idx

\* C16: a TAR-based archive of several entries has been extracted to the end
C16_TarExtracted ==
    /\ IsExtract /\ ~ZipSource
    /\ pc = "done" /\ result.state = "ok"
    /\ Len(emitted) >= 2
    /\ emitted[Len(emitted)].TotalFiles = 0
    /\ result.stats.TotalFiles >= 2

\* C16: a ZIP archive is being read and the snapshot of its first entry
\* already carries the entry count
C16_ZipSnapshotHasTotal ==
    /\ IsExtract /\ ZipSource /\ pc = "entry" /\ idx = 0
    /\ Len(emitted) = 1 /\ emitted[1].TotalFiles >= 2

\* the entry is on disk at its target: a directory entry as a directory, a
\* file entry as a file, a link stored in a ZIP archive as a file
OnDisk(e) ==
    /\ e.type = "dir" => IsDirAt(disk, RealPath(disk, Target(e.name)))
    /\ (e.type = "reg" \/ (e.type = "symlink" /\ ZipSource)) =>
          /\ StatOk(disk, Target(e.name))
          /\ StatNode(disk, Target(e.name)).kind = "file"

\* C17: a symbolic link that cannot be recreated is the only failure Extract
\* passes over. So when Extract returns success it has gone through every
\* entry, none of them led out of the output root (path traversal aborts),
\* and every directory and file entry is on disk (a directory or a file that
\* cannot be created aborts); only links may be missing.
C17_OnlySymlinkSkipped ==
    (IsExtract /\ pc = "done" /\ result.state = "ok") =>
        /\ idx = Len(files)
        /\ \A i \in 1..Len(files) : ~Climbs(files[i].name) /\ OnDisk(files[i])

\* C17: Extract has returned success on an archive with an entry that leads
\* out of the output root, after a directory entry it put on disk
C17_TraversalNotAborted ==
    /\ IsExtract /\ pc = "done" /\ result.state = "ok"
    /\ Len(files) = 2
    /\ files[1].type = "dir" /\ OnDisk(files[1])
    /\ Climbs(files[2].name)

\* the part of C17 that does not rest on the path check: a successful
\* Extract has gone through every entry and every directory and file entry
\* is on disk at its target
C17_OnlySymlinkMissing ==
    (IsExtract /\ pc = "done" /\ result.state = "ok") =>
        /\ idx = Len(files)
        /\ \A i \in 1..Len(files) : OnDisk(files[i])

\* a link of a TAR archive could not be made, the later entries were
\* extracted and Extract returned success
SymlinkSkipped ==
    /\ IsExtract /\ ~ZipSource /\ pc = "done" /\ result.state = "ok"
    /\ \E i \in 1..Len(files) :
          /\ files[i].type = "symlink"
          /\ StatNode(disk, Dir(Target(files[i].name))).kind = "dir"
          /\ disk[Target(files[i].name)] # LinkNode(files[i].link)
          /\ \E j \in (i + 1)..Len(files) : files[j].type = "reg" /\ OnDisk(files[j])

\* Extract has returned on a ZIP archive whose entries Compress encrypted
\* under a password, the context not having been cancelled
EncryptedZipExtracted ==
    /\ IsExtract /\ pc = "done" /\ ~ctxDone
    /\ SrcReal \in DOMAIN before.arcs
    /\ ZipSource /\ before.arcs[SrcReal].fmt = FmtZip
    /\ before.arcs[SrcReal].key # <<>>
    /\ \E i \in 1..Len(before.arcs[SrcReal].entries) :
          before.arcs[SrcReal].entries[i].type = "reg"

C18_RightPasswordAccepted ==
    /\ EncryptedZipExtracted /\ origin.on
    /\ before.arcs[SrcReal].key = pSecret /\ opts.Password = pSecret
    /\ result.state = "ok"
    /\ ExtractedFiles(disk, opts.Output) = origin.files

\* the interface has handled the done message of the worker
DoneHandled == ui.worker = "delivered" /\ ui.state \in {"done", "error"}

\* the worker is at the head of its loop and the next thing it does is hand
\* out a snapshot
AboutToHandOut ==
    /\ ui.on /\ ui.worker = "running" /\ pc = "loop"
    /\ ~ctxDone /\ idx < Len(files)
    /\ (IsExtract /\ ~ZipSource) =>
          SourceIntact(arcs, RealPath(disk, opts.Source), DetectArchiveFormat(opts.Source))

\* C19: the progress channel never holds up the worker. The channel never
\* holds more than its capacity and holds nothing but snapshots the engine
\* handed out; whenever the worker is about to hand out a snapshot the send
\* completes at once, whether the channel has room or is full and however
\* little has been read from it; and once the engine has returned, the done
\* message is handled by the interface, unless it has quit, whatever is left
\* in the channel.
C19_WorkerNeverStalls ==
    /\ [](/\ Len(chan.buf) <= ChanCap
          /\ \A i \in 1..Len(chan.buf) : \E k \in 1..Len(emitted) : chan.buf[i] = emitted[k]
          /\ AboutToHandOut => trySend(chan, stats).done)
    /\ (ui.on /\ pc = "done") ~> (ui.quit \/ DoneHandled)

\* C19: the operation has succeeded and its done message has been handled
\* although nothing was ever read from the channel: the channel is full and
\* a snapshot was dropped
C19_SnapshotDropped ==
    /\ ui.on /\ DoneHandled /\ ui.state = "done"
    /\ lsn.at = "recv"
    /\ Len(chan.buf) = ChanCap
    /\ Len(emitted) > ChanCap

\* C20: once the interface has handled the done message of a successful
\* operation, the statistics it shows are the final statistics of the engine
\* and no snapshot is applied to them afterwards.
C20_FinalStatsStay ==
    (ui.on /\ ui.state = "done") => ui.stats = result.stats

\* C20: the interface shows a finished operation, and the statistics it
\* shows are those of a snapshot that was handled after the done message
C20_SnapshotAfterDone ==
    /\ ui.on /\ ui.state = "done" /\ ~ui.quit
    /\ result.state = "ok"
    /\ \E k \in 1..Len(emitted) : ui.stats = emitted[k]
    /\ ui.stats # result.stats
    /\ lsn.at = "off"

\* the segments of a path: its elements between separators, empty ones left
\* out
Segments(path) == SelectSeq(SplitSep(path), LAMBDA e : e # <<>>)

\* the patterns of the request that hold no wildcard
PlainPatterns ==
    {opts.Excludes[i] : i \in {j \in 1..Len(opts.Excludes) :
                                 ~Contains(opts.Excludes[j], <<"*">>)}}

\* the paths the collector hands to shouldExclude: every node of the source
\* tree in its form relative to the parent of the source and as it is
PathsTested == {walkRelPath(opts.Source, q) : q \in TreeNodes} \cup TreeNodes

\* Compress has walked a directory source
Walked == IsCompress /\ pc # "start" /\ DirSource

\* C22: for a pattern without a wildcard, shouldExclude on a path and that
\* pattern alone is true exactly when the pattern equals a complete segment
\* of the path, be it the first, a middle or the last one, and never because
\* the pattern is part of a segment; with no pattern it is false.
C22_SegmentAnywhere ==
    Walked =>
        \A path \in PathsTested :
            /\ ~shouldExclude(path, <<>>)
            /\ \A pat \in PlainPatterns :
                  shouldExclude(path, <<pat>>) <=>
                      \E i \in 1..Len(Segments(path)) : Segments(path)[i] = pat

\* C22: the collector has tested a relative path of several segments whose
\* first segment is the pattern, and shouldExclude is false for it
C22_FirstSegmentMissed ==
    /\ Walked
    /\ \E path \in PathsTested, pat \in PlainPatterns :
          /\ ~IsRooted(path) /\ Len(Segments(path)) >= 2
          /\ Segments(path)[1] = pat
          /\ ~shouldExclude(path, <<pat>>)

\* the part of C22 that holds: the pattern must equal the last segment or a
\* segment that follows a separator, so every segment but the first one of a
\* relative path; a pattern that is only part of a segment never matches
C22_SegmentAfterSeparator ==
    Walked =>
        \A path \in PathsTested :
            /\ ~shouldExclude(path, <<>>)
            /\ \A pat \in PlainPatterns :
                  shouldExclude(path, <<pat>>) <=>
                      \E i \in 1..Len(Segments(path)) :
                          /\ Segments(path)[i] = pat
                          /\ i > 1 \/ IsRooted(path) \/ Len(Segments(path)) = 1

\* a pattern that is part of a segment of a tested path, and not a segment
PartOfSegmentTested ==
    /\ Walked
    /\ \E path \in PathsTested, pat \in PlainPatterns :
          /\ \E i \in 1..Len(Segments(path)) :
                Contains(Segments(path)[i], pat) /\ Segments(path)[i] # pat
          /\ ~shouldExclude(path, <<pat>>)

\* the exclusion test of a collector that looks at the relative form only
ExcludedRel(q) == shouldExclude(walkRelPath(opts.Source, q), opts.Excludes)

\* what such a collector keeps, and what it counts
KeptRel ==
    {q \in TreeNodes : /\ before.disk[q].kind # "dir"
                       /\ \A a \in TreeNodes : Within(a, q) => ~ExcludedRel(a)}

CountedRel ==
    {a \in TreeNodes : /\ ExcludedRel(a)
                       /\ \A b \in TreeNodes : (b # a /\ Within(b, a)) => ~ExcludedRel(b)}

\* C23: the test of the absolute form adds nothing: for a directory source
\* whose walk does not fail, the collector returns the file list and the
\* excluded count of a collector that tests only the path relative to the
\* parent of the source, and Compress goes on exactly when that collector
\* keeps a file.
C23_AbsoluteTestRedundant ==
    (Walked /\ result.err # "Collect") =>
        /\ (result.err = "EmptyInput") <=> (KeptRel = {})
        /\ HasCollected =>
              /\ {files[i] : i \in 1..Len(files)} = KeptRel
              /\ Len(files) = Cardinality(KeptRel)
              /\ stats.ExcludedFiles = Cardinality(CountedRel)

\* C23: a pattern that names a directory above the source has emptied the
\* list, although no relative path matches a pattern
C23_AncestorNameExcludes ==
    /\ Walked /\ pc = "done" /\ result.err = "EmptyInput"
    /\ KeptRel # {} /\ CountedRel = {}
    /\ \A q \in TreeNodes : shouldExclude(q, opts.Excludes)

\* what the collector returned for the request of the call
Collected == collectFiles(before.disk, opts.Source, opts.Excludes)

\* the name of the source root matches a pattern of the request
RootNameMatches == shouldExclude(Base(opts.Source), opts.Excludes)

\* the test of C27 on what the collector returned
rootPruned(c) == c.err = "" /\ c.files = <<>> /\ c.excluded = 1

\* C27: the source root is tested like every other node: when its own name
\* matches a pattern the walk is pruned at the root, the collector returns
\* no file and an excluded count of 1, and Compress fails with EmptyInput
\* and leaves the file system as it was, the output file not created.
C27_RootExcluded ==
    (Walked /\ RootNameMatches) =>
        /\ rootPruned(Collected)
        /\ pc = "done" /\ result.state = "err" /\ result.err = "EmptyInput"
        /\ disk = before.disk /\ arcs = before.arcs
        /\ opts.Output \notin DOMAIN disk

\* C27: Compress has ended on a source root whose name is a pattern, the
\* root holding files that match no pattern by their own names
C27_RootNamed ==
    /\ Walked /\ RootNameMatches /\ pc = "done"
    /\ \E q \in TreeNodes : /\ before.disk[q].kind = "file"
                             /\ ~shouldExclude(Base(q), opts.Excludes)

\* the errors an entry produces on its own
OwnFailures == {"IO", "PathTraversal", "WrongPassword"}

\* entry k of the call is done: Compress has it in the archive as the last
\* entry, under its archive name; Extract has it on disk
EntryDone(k) ==
    IF IsCompress
    THEN /\ OutReal \in DOMAIN arcs
         /\ Len(arcs[OutReal].entries) = k
         /\ arcs[OutReal].entries[k].name = archiveName(opts.Source, files[k])
    ELSE OnDisk(files[k])

\* the context was cancelled while an entry was in progress
CancelledMidEntry == ctxDone /\ cancelAt.pc = "entry"

\* C24, as stated: the context is checked at the top of the loop only. A
\* cancel that arrives while entry k is in progress does not interrupt it:
\* unless the entry fails on its own it is written or extracted completely,
\* and the call returns Cancelled at the next check, entry k+1 not started.
C24_CancelledAfterEntry ==
    (CancelledMidEntry /\ pc = "done" /\ result.err \notin OwnFailures) =>
        /\ idx = cancelAt.n + 1
        /\ EntryDone(idx)
        /\ result.err = "Cancelled"

\* C24, amended: a cancel that arrives while entry k is in progress does not
\* interrupt it and no later entry is started. Unless entry k fails on its
\* own, it is written or extracted completely; the call then returns
\* Cancelled at the next check when there is one (an entry is left, or the
\* archive is read by the TAR reader, which checks before it reads the end of
\* the stream), and returns success when entry k was the last one of
\* Compress or of ZIP extraction.
C24_CancelAtNextCheckIfAny ==
    CancelledMidEntry =>
        /\ idx <= cancelAt.n + 1
        /\ \A k \in Snapshots : k <= cancelAt.n + 1
        /\ pc = "done" =>
              \/ result.err \in OwnFailures /\ idx = cancelAt.n
              \/ /\ idx = cancelAt.n + 1 /\ EntryDone(idx)
                 /\ IF idx < Len(files) \/ TarSource
                    THEN result.err = "Cancelled"
                    ELSE result.state = "ok"

\* C24: the context was cancelled while the last entry was in progress, the
\* entry was finished, and the call ended
C24_LastEntryFinished ==
    /\ CancelledMidEntry /\ pc = "done"
    /\ cancelAt.n + 1 = Len(files) /\ idx = Len(files)
    /\ EntryDone(idx)

\* the context was cancelled in the loop when every entry of the input had
\* been processed, the input being a whole one
CancelledAfterLast ==
    /\ ctxDone /\ cancelAt.pc = "loop" /\ cancelAt.n = Len(files)
    /\ IsExtract => SourceIntact(before.arcs, RealPath(before.disk, opts.Source),
                                 DetectArchiveFormat(opts.Source))

\* C26: a cancel that arrives only after the last entry has been processed
\* changes nothing: Compress, ZIP extraction and TAR-based extraction alike
\* return success with the final statistics, every entry counted.
C26_LateCancelSucceeds ==
    (CancelledAfterLast /\ pc = "done") =>
        /\ result.state = "ok" /\ result.err = ""
        /\ result.stats.ProcessedFiles = Len(files)

\* C26: a TAR-based extraction was cancelled when its entries, one at least,
\* were all on disk, and it returned Cancelled
C26_TarLateCancel ==
    /\ CancelledAfterLast /\ pc = "done" /\ TarSource
    /\ Len(files) >= 1 /\ idx = Len(files)
    /\ \A k \in 1..Len(files) : files[k].type = "reg" /\ OnDisk(files[k])
    /\ result.err = "Cancelled"

\* the part of C26 that holds: Compress and ZIP extraction succeed after a
\* late cancel, TAR-based extraction returns Cancelled
C26_LateCancelByReader ==
    (CancelledAfterLast /\ pc = "done") =>
        IF TarSource THEN result.err = "Cancelled"
        ELSE /\ result.state = "ok"
             /\ result.stats.ProcessedFiles = Len(files)

\* a Compress has succeeded after a late cancel
LateCancelCompressed ==
    CancelledAfterLast /\ pc = "done" /\ IsCompress /\ result.state = "ok"

\* entry i is a regular file whose name passes through a symbolic link that
\* an earlier entry of the archive put into the output directory
ThroughLink(i) ==
    /\ files[i].type = "reg"
    /\ \E j \in 1..(i - 1) :
          /\ files[j].type = "symlink"
          /\ Target(files[j].name) # Target(files[i].name)
          /\ Within(Target(files[j].name), Target(files[i].name))

\* C25: no sequence of TAR entries makes Extract write through a symbolic
\* link to a place outside the output root: a regular-file entry whose name
\* passes through a link recreated by an earlier entry is rejected, or the
\* file it writes lies inside the output root.
C25_NoWriteThroughLink ==
    TarSource =>
        \A i \in 1..idx :
            ThroughLink(i) => Within(Clean(opts.Output), RealPath(disk, Target(files[i].name)))

\* C25: Extract has returned success after it wrote the content of an entry
\* through a link of the archive to a new file outside the output root, in a
\* directory that shares no prefix with the root
C25_WrittenThroughLink ==
    /\ TarSource /\ pc = "done" /\ result.state = "ok"
    /\ \E i \in 1..idx :
          /\ ThroughLink(i)
          /\ ~HasPrefix(RealPath(disk, Target(files[i].name)), Clean(opts.Output))
          /\ RealPath(disk, Target(files[i].name)) \notin DOMAIN before.disk
          /\ RealPath(disk, Target(files[i].name)) \in DOMAIN disk
          /\ disk[RealPath(disk, Target(files[i].name))].data = files[i].data

\* the operation shown by the interface has ended
Finished(u) == u.state \in {"done", "error"}

\* C21: at most one operation is started in a run of the program. While the
\* interface shows a running operation no step starts another one or changes
\* the request, and the state shown changes only when the done message of
\* the worker is handled, so no key other than ctrl+c has an effect; once
\* the operation is shown as done or failed the state stays as it is, the
\* model changes only by a late progress message or by the keys that quit.
C21_OneOperation ==
    [][/\ ui'.starts <= 1
       /\ ui.on => /\ ui'.on /\ ui'.starts = ui.starts /\ opts' = opts
                   /\ pc' = "start" => pc = "start"
       /\ Running(ui) =>
             \/ ui'.state = ui.state
             \/ Finished(ui') /\ ui.worker = "returned" /\ ui'.worker = "delivered"
       /\ Finished(ui) =>
             /\ ui'.state = ui.state
             /\ [ui' EXCEPT !.quit = ui.quit, !.stats = ui.stats] = ui]_vars

\* C21: an operation started from the wizard is shown as done, the program
\* still taking keys
C21_OperationDone ==
    /\ ui.state = "done" /\ ui.starts = 1 /\ ~ui.quit
    /\ pc = "done" /\ result.state = "ok"

C28_CancelsWhenHeld ==
    (ui.on /\ Running(ui) /\ ui.kept /\ ui.quit) => ctxDone

\* ctrl+c has cancelled a running operation
CancelledByCtrlC ==
    ui.on /\ ui.kept /\ ui.quit /\ ctxDone /\ pc = "done" /\ result.err = "Cancelled"

\* an archive has been chosen in extract mode and the output directory
\* derived from it is what the model holds
ArchiveChosen(u) ==
    /\ u.mode = "extract"
    /\ u.state \in {"inputPassword", "confirm", "extracting", "done", "error"}
    /\ IsArchiveFile(u.selectedPath)

\* C29: for every name IsArchiveFile recognizes, in any letter case, the
\* output directory derived for extraction is a path other than the
\* archive's own path.
C29_OutputIsNotArchive ==
    ArchiveChosen(ui) => ui.outputPath # ui.selectedPath

\* C29: an archive with a recognized suffix has been chosen, the output
\* directory derived for it is the archive's own path, and the extraction
\* started with it has failed
C29_OutputIsArchive ==
    /\ ArchiveChosen(ui) /\ ui.outputPath = ui.selectedPath
    /\ ui.on /\ pc = "done" /\ result.state = "err"
    /\ opts.Output = opts.Source

\* the part of C29 that holds: a name whose last extension is on the list
\* the loop strips gets an output directory other than the archive
C29_StrippedOutputDiffers ==
    (ArchiveChosen(ui) /\ isStripped(Ext(Base(ui.selectedPath))))
        => ui.outputPath # ui.selectedPath

\* an archive whose extensions are stripped has been extracted
StrippedExtracted ==
    /\ ArchiveChosen(ui) /\ isStripped(Ext(Base(ui.selectedPath)))
    /\ ui.on /\ pc = "done" /\ result.state = "ok"

\* the operation the interface has started is one for a format that takes a
\* password: ZIP compression, or the extraction of a ZIP or 7z archive
TakesPassword(o) ==
    IF o.op = "compress" THEN o.Format = FmtZip
    ELSE DetectArchiveFormat(o.Source) \in {FmtZip, Fmt7z}

\* C30: after any sequence of keys, an operation started for a format
\* without password support is handed an empty password, and ZIP compression
\* is handed a non-empty password exactly when usePassword is true.
C30_PasswordOnlyWhereSupported ==
    ui.on =>
        /\ ~TakesPassword(opts) => opts.Password = <<>>
        /\ (opts.op = "compress" /\ opts.Format = FmtZip)
               => (opts.Password # <<>> <=> ui.usePassword)

\* C30: a TAR-based compression has been started with a password that was
\* typed for ZIP before the format was changed, and has run to its end
C30_TarGivenPassword ==
    /\ ui.on /\ opts.op = "compress" /\ opts.Format = FmtTarGz
    /\ opts.Password = pKey /\ ~ui.usePassword
    /\ pc = "done" /\ result.state = "ok"

\* the part of C30 that holds: ZIP compression is handed a non-empty
\* password exactly when usePassword is true
C30_ZipPasswordIsChoice ==
    (ui.on /\ opts.op = "compress" /\ opts.Format = FmtZip)
        => (opts.Password # <<>> <=> ui.usePassword)

\* a ZIP compression has been started with the password that was typed
ZipGivenPassword ==
    /\ ui.on /\ opts.op = "compress" /\ opts.Format = FmtZip
    /\ opts.Password = pKey /\ ui.usePassword

\* the extraction of a TAR-based archive has been started with a password
\* left from a ZIP compression that was not started
TarExtractGivenPassword ==
    /\ ui.on /\ opts.op = "extract" /\ ~TakesPassword(opts)
    /\ opts.Password # <<>>

====
